---- MODULE Spec2Model ----
(***************************************************************************)
(* Zero-knowledge proof of a Sudoku solution: the prover process (terminal *)
(* editor thread + protocol worker thread), the Sudoku -> graph reduction, *)
(* the hash commitment and the byte codec of the challenge payload.        *)
(***************************************************************************)
EXTENDS Integers, Sequences, FiniteSets, TLC

(***************************************************************************)
(* Bounds of the model (not program constants).                            *)
(***************************************************************************)
\* keystrokes and requests the process handles in one run
MaxSteps == 3
\* largest `count` value a commitments request carries
MaxCount == 2
\* largest number of edges in a well-formed challenge payload
MaxChallenge == 2
\* number of distinct outcomes of one draw of the random generator
NumStreams == 2
\* longest Vec / Box<[T]> value handed to the codec
MaxLen == 2
\* N of the [T; N] values handed to the codec
ArrayLen == 2
\* keys are drawn from 0 .. 2^KeyBits - 1 (a slice of u64)
KeyBits == 4
\* passes of verify() the verifier's main loop makes in one run
MaxPasses == 1

(***************************************************************************)
(* Program constants.                                                      *)
(***************************************************************************)
NUM_GRAPH_NODES == 90
\* first index after the 81 cell nodes minus one: constraint node of v is 80 + v
ANCHOR_BASE == 80
\* 2 * 324 + 162 cell-to-cell edges the reduction expects
CELL_EDGES == 810
\* edges the reduction expects per given cell
EDGES_PER_GIVEN == 8

Cells == 0..8
Colors == 0..9
Nodes == 0..(NUM_GRAPH_NODES - 1)

(***************************************************************************)
(* Sudoku values built by the sudoku! macro: `_` is 0 and not given, a     *)
(* literal is given; `given` lists (x, y) in row-major order.              *)
(***************************************************************************)
\* the pushes of a nested loop, in order: ss[1] \o ss[2] \o ...
RECURSIVE concat_range(_, _, _)
concat_range(ss, lo, hi) ==
  IF lo > hi THEN <<>>
  ELSE IF lo = hi THEN ss[lo]
  ELSE LET mid == (lo + hi) \div 2
       IN  concat_range(ss, lo, mid) \o concat_range(ss, mid + 1, hi)

ConcatAll(ss) == concat_range(ss, 1, Len(ss))

sudoku(rows) ==
  [ grid  |-> [y \in Cells |-> [x \in Cells |-> rows[y + 1][x + 1]]],
    given |-> ConcatAll([yy \in 1..9 |->
                 ConcatAll([xx \in 1..9 |->
                    IF rows[yy][xx] # 0 THEN << <<xx - 1, yy - 1>> >> ELSE <<>>])]) ]

PUZZLE ==
  sudoku(<< <<4, 0, 0, 0, 9, 6, 2, 0, 8>>,
            <<3, 0, 8, 1, 0, 0, 0, 9, 0>>,
            <<9, 6, 1, 0, 0, 0, 7, 0, 0>>,
            <<0, 0, 3, 4, 0, 5, 9, 6, 0>>,
            <<6, 0, 0, 9, 2, 8, 0, 7, 4>>,
            <<0, 0, 4, 7, 0, 0, 1, 0, 0>>,
            <<0, 0, 9, 0, 0, 2, 0, 0, 1>>,
            <<0, 0, 0, 8, 3, 1, 6, 4, 0>>,
            <<0, 0, 0, 0, 4, 0, 0, 2, 7>> >>)

SOLUTION ==
  sudoku(<< <<4, 5, 7, 3, 9, 6, 2, 1, 8>>,
            <<3, 2, 8, 1, 5, 7, 4, 9, 6>>,
            <<9, 6, 1, 2, 8, 4, 7, 5, 3>>,
            <<7, 8, 3, 4, 1, 5, 9, 6, 2>>,
            <<6, 1, 5, 9, 2, 8, 3, 7, 4>>,
            <<2, 9, 4, 7, 6, 3, 1, 8, 5>>,
            <<8, 4, 9, 6, 7, 2, 5, 3, 1>>,
            <<5, 7, 2, 8, 3, 1, 6, 4, 9>>,
            <<1, 3, 6, 5, 4, 9, 8, 2, 7>> >>)

FAKE_SOLUTION ==
  sudoku(<< <<1, 2, 3, 4, 5, 6, 7, 8, 9>>,
            <<4, 5, 6, 7, 8, 9, 1, 2, 3>>,
            <<7, 8, 9, 1, 2, 3, 4, 5, 6>>,
            <<2, 3, 4, 5, 6, 7, 8, 9, 1>>,
            <<5, 6, 7, 8, 9, 1, 2, 3, 4>>,
            <<8, 9, 1, 2, 3, 4, 5, 6, 7>>,
            <<3, 4, 5, 6, 7, 8, 9, 1, 2>>,
            <<6, 7, 8, 9, 1, 2, 3, 4, 5>>,
            <<9, 1, 2, 3, 4, 5, 6, 7, 8>> >>)

\* slice.contains
Contains(seq, e) == \E k \in 1..Len(seq) : seq[k] = e

(***************************************************************************)
(* Sudoku -> graph reduction (impl From<&Sudoku> for Graph<u8>).           *)
(* A graph is [nodes |-> [Nodes -> payload], edges |-> sequence of <<a,b>>]*)
(***************************************************************************)
\* for i in x + 1..9 { edges.push((9 * y + x, 9 * y + i)) }
row_edges(x, y) == [k \in 1..(8 - x) |-> <<9 * y + x, 9 * y + (x + k)>>]

\* the column loop stopping before the last row: for j in y + 1..8
col_edges_short(x, y) ==
  [k \in 1..(IF y < 7 THEN 7 - y ELSE 0) |-> <<9 * y + x, 9 * (y + k) + x>>]

\* for j in y + 1..9 { edges.push((9 * y + x, 9 * j + x)) }
col_edges(x, y) == [k \in 1..(8 - y) |-> <<9 * y + x, 9 * (y + k) + x>>]

\* the box loop with its rows starting at y instead of y + 1
box_edges_from_y(x, y) ==
  ConcatAll([k \in 1..(((y + 3) \div 3) * 3 - y) |->
     ConcatAll([m \in 1..3 |->
        LET i == (x \div 3) * 3 + (m - 1)
            j == y + k - 1
        IN  IF i # x THEN << <<9 * y + x, 9 * j + i>> >> ELSE <<>>])])

\* (y + 1..(y + 3) / 3 * 3).flat_map(|j| (x / 3 * 3..).take(3).filter(|i| *i != x))
box_edges(x, y) ==
  ConcatAll([k \in 1..(((y + 3) \div 3) * 3 - (y + 1)) |->
     ConcatAll([m \in 1..3 |->
        LET i == (x \div 3) * 3 + (m - 1)
            j == y + k
        IN  IF i # x THEN << <<9 * y + x, 9 * j + i>> >> ELSE <<>>])])

\* the three loops of one cell, cells in row-major order
cell_edges ==
  ConcatAll([yy \in 1..9 |->
     ConcatAll([xx \in 1..9 |->
        row_edges(xx - 1, yy - 1) \o col_edges(xx - 1, yy - 1)
          \o box_edges(xx - 1, yy - 1)])])

\* the given loop without .filter(|v| *v != value)
given_edges_unfiltered(s) ==
  ConcatAll([g \in 1..Len(s.given) |->
     LET i == s.given[g][1]
         j == s.given[g][2]
         vs == <<1, 2, 3, 4, 5, 6, 7, 8, 9>>
     IN  [m \in 1..Len(vs) |-> <<9 * j + i, ANCHOR_BASE + vs[m]>>]])

\* for v in (1..=9).filter(|v| *v != value) { edges.push((9 * j + i, 80 + v)) }
given_edges(s) ==
  ConcatAll([g \in 1..Len(s.given) |->
     LET i == s.given[g][1]
         j == s.given[g][2]
         value == s.grid[j][i]
         vs == SelectSeq(<<1, 2, 3, 4, 5, 6, 7, 8, 9>>, LAMBDA v : v # value)
     IN  [m \in 1..Len(vs) |-> <<9 * j + i, ANCHOR_BASE + vs[m]>>]])

\* let mut nodes = [0; 90]; nodes[9 * y + x] = cell;
graph_nodes(s) ==
  [n \in Nodes |-> IF n <= 80 THEN s.grid[n \div 9][n % 9] ELSE 0]

graph_edges(s) == cell_edges \o given_edges(s)

expected_edges(s) == CELL_EDGES + EDGES_PER_GIVEN * Len(s.given)

\* debug_assert_eq!(edges.len(), expected_edges)
edge_count_ok(s) == Len(graph_edges(s)) = expected_edges(s)

graph_of(s) == [nodes |-> graph_nodes(s), edges |-> graph_edges(s)]

(***************************************************************************)
(* Commitment (graph::hash): SHA-256 of the 8 little-endian bytes of       *)
(* value as u64 ^ key.  SHA-256 is taken as injective on its 8-byte input: *)
(* a digest is the tagged input.                                           *)
(***************************************************************************)
RECURSIVE bitxor(_, _)
bitxor(a, b) ==
  IF a = 0 THEN b
  ELSE IF b = 0 THEN a
  ELSE (((a % 2) + (b % 2)) % 2) + 2 * bitxor(a \div 2, b \div 2)

\* u64::to_le_bytes / usize::to_le_bytes (values below 2^31)
RECURSIVE le_bytes(_, _)
le_bytes(n, width) ==
  IF width = 0 THEN <<>> ELSE <<n % 256>> \o le_bytes(n \div 256, width - 1)

to_le_bytes(n) == le_bytes(n, 8)

Sha256(bytes) == <<"sha256", bytes>>

hash(value, key) == Sha256(to_le_bytes(bitxor(value, key)))

(***************************************************************************)
(* Graph::map (relabel every node colour through the mapper) and           *)
(* Graph::encrypt (hash node i with keys[i], keep the edges).              *)
(***************************************************************************)
graph_map(graph, mapper) ==
  [graph EXCEPT !.nodes = [n \in Nodes |-> mapper[graph.nodes[n]]]]

\* encrypt with the key iterator one element ahead of the node iterator
encrypt_shifted(graph, keys) ==
  [nodes |-> [n \in Nodes |-> hash(graph.nodes[n], keys[(n + 1) % NUM_GRAPH_NODES])],
   edges |-> graph.edges]

encrypt(graph, keys) ==
  [nodes |-> [n \in Nodes |-> hash(graph.nodes[n], keys[n])],
   edges |-> graph.edges]

\* Graph::get_copied / Keys::get: index both ends; an index >= 90 panics
index_ok(edge) == edge[1] \in Nodes /\ edge[2] \in Nodes

get_copied(graph, edge) == <<graph.nodes[edge[1]], graph.nodes[edge[2]]>>

keys_get(keys, edge) == <<keys[edge[1]], keys[edge[2]]>>

\* verifier: encrypted_graph[edge.0] != sudoku::hash(values.0, keys.0) -> HashMismatch
hash_check(encrypted_node, value, key) == encrypted_node = hash(value, key)

\* the checks with the hashes compared before the colours
verify_opening_hash_first(encrypted_nodes, edge, values, keys) ==
  IF edge[1] \notin Nodes THEN "panic"
  ELSE IF ~hash_check(encrypted_nodes[edge[1]], values[1], keys[1]) THEN "HashMismatch"
  ELSE IF edge[2] \notin Nodes THEN "panic"
  ELSE IF ~hash_check(encrypted_nodes[edge[2]], values[2], keys[2]) THEN "HashMismatch"
  ELSE IF values[1] = values[2] THEN "AdjacentIdenticalNodes"
  ELSE "Ok"

\* the checks without the one on the second endpoint
verify_opening_first_only(encrypted_nodes, edge, values, keys) ==
  IF values[1] = values[2] THEN "AdjacentIdenticalNodes"
  ELSE IF edge[1] \notin Nodes THEN "panic"
  ELSE IF ~hash_check(encrypted_nodes[edge[1]], values[1], keys[1]) THEN "HashMismatch"
  ELSE "Ok"

\* the checks without the comparison of the two colours
verify_opening_hashes_only(encrypted_nodes, edge, values, keys) ==
  IF edge[1] \notin Nodes THEN "panic"
  ELSE IF ~hash_check(encrypted_nodes[edge[1]], values[1], keys[1]) THEN "HashMismatch"
  ELSE IF edge[2] \notin Nodes THEN "panic"
  ELSE IF ~hash_check(encrypted_nodes[edge[2]], values[2], keys[2]) THEN "HashMismatch"
  ELSE "Ok"

\* verifier: the checks on one opening, in the order of verify();
\* encrypted_graph[i] panics for i >= 90
verify_opening(encrypted_nodes, edge, values, keys) ==
  IF values[1] = values[2] THEN "AdjacentIdenticalNodes"
  ELSE IF edge[1] \notin Nodes THEN "panic"
  ELSE IF ~hash_check(encrypted_nodes[edge[1]], values[1], keys[1]) THEN "HashMismatch"
  ELSE IF edge[2] \notin Nodes THEN "panic"
  ELSE IF ~hash_check(encrypted_nodes[edge[2]], values[2], keys[2]) THEN "HashMismatch"
  ELSE "Ok"

(***************************************************************************)
(* Outcomes of the random generator.  One draw of the generator for a      *)
(* commitments request is one of NumStreams streams; sub-round j of stream *)
(* r uses the mapper and the key vector below.                             *)
(***************************************************************************)
\* array::from_fn(|i| i as u8)
identity_mapper == [c \in Colors |-> c]

\* outcomes of mapper[1..].shuffle: permutations of 1..9, mapper[0] = 0
Shuffles ==
  << [c \in Colors |-> IF c = 0 THEN 0 ELSE (c % 9) + 1],
     [c \in Colors |-> IF c = 0 THEN 0 ELSE 10 - c],
     [c \in Colors |-> IF c = 1 THEN 2 ELSE IF c = 2 THEN 1 ELSE c],
     [c \in Colors |-> IF c = 0 THEN 0 ELSE ((c + 3) % 9) + 1],
     identity_mapper >>

KeyValues == 0..(2 ^ KeyBits - 1)

shuffle(r, j) == Shuffles[((r + j) % Len(Shuffles)) + 1]

\* rng.random::<[u64; 90]>()
random_keys(r, j) == [n \in Nodes |-> (5 * r + 3 * j + 7 * n) % (2 ^ KeyBits)]

(***************************************************************************)
(* bytes crate: BytesReader and the decoders the challenge payload uses.   *)
(* A reader is [data, read, alloc]; a result is [ok, value, reader] or      *)
(* [ok |-> FALSE, err].  alloc is the allocator the decoder runs with:     *)
(* TRUE when it grants a reservation of 2^24 elements or more, FALSE when  *)
(* it refuses one.  An err of "capacity overflow" is a panic of the        *)
(* decoding thread and an err of "alloc error" is an abort of the process; *)
(* neither is a BytesError value.                                          *)
(***************************************************************************)
\* u64::from_le_bytes; values of 2^24 and more are all read as U64_LARGE
U64_LARGE == 256 * 256 * 256

from_le_bytes(b) ==
  IF b[4] = 0 /\ b[5] = 0 /\ b[6] = 0 /\ b[7] = 0 /\ b[8] = 0
  THEN b[1] + 256 * b[2] + 65536 * b[3]
  ELSE U64_LARGE

BytesReader_new(bytes, alloc) == [data |-> bytes, read |-> 0, alloc |-> alloc]

\* BytesReader::read
BytesReader_read(reader, n) ==
  IF reader.read + n > Len(reader.data)
  THEN [ok |-> FALSE, err |-> <<"EndOfData", reader.read>>]
  ELSE [ok |-> TRUE,
        value |-> SubSeq(reader.data, reader.read + 1, reader.read + n),
        reader |-> [reader EXCEPT !.read = reader.read + n]]

\* BytesReader::finish reporting the length of the data
BytesReader_finish_len(reader) ==
  IF reader.read = Len(reader.data)
  THEN [ok |-> TRUE]
  ELSE [ok |-> FALSE, err |-> <<"TrailingData", Len(reader.data)>>]

\* BytesReader::finish
BytesReader_finish(reader) ==
  IF reader.read = Len(reader.data)
  THEN [ok |-> TRUE]
  ELSE [ok |-> FALSE, err |-> <<"TrailingData", reader.read>>]

\* the top byte and the carry of len * size, len given by its 8 bytes
RECURSIVE mul_carry(_, _, _, _)
mul_carry(b, size, k, carry) ==
  LET p == b[k] * size + carry
  IN  IF k = 8 THEN <<p % 256, p \div 256>>
      ELSE mul_carry(b, size, k + 1, p \div 256)

\* len * size > isize::MAX
capacity_overflow(b, size) ==
  LET top == mul_carry(b, size, 1, 0)
  IN  top[2] > 0 \/ top[1] >= 128

\* Vec::with_capacity(len) and Box::new_uninit_slice(len) for elements of
\* `size` bytes, len given by its 8 bytes: a panic when len * size exceeds
\* isize::MAX, an abort when the allocator refuses, and nothing is read yet
with_capacity(b, size, alloc) ==
  IF capacity_overflow(b, size) THEN "capacity overflow"
  ELSE IF from_le_bytes(b) < U64_LARGE \/ alloc THEN "ok"
  ELSE "alloc error"

\* with_capacity at the length the reader has just read
reserve(reader, size) ==
  with_capacity(SubSeq(reader.data, reader.read - 7, reader.read), size,
                reader.alloc)

\* the decoder did not return: it panicked or the process aborted
is_abort(result) ==
  ~result.ok /\ result.err[1] \in {"capacity overflow", "alloc error"}

\* impl_bytes_for_uint!(u64)::read
u64_read(reader) ==
  LET r == BytesReader_read(reader, 8)
  IN  IF r.ok THEN [r EXCEPT !.value = from_le_bytes(r.value)] ELSE r

\* impl Bytes for usize::read (64-bit host: try_into never fails)
usize_read(reader) == u64_read(reader)

\* derive Bytes for Edge(pub usize, pub usize)
Edge_read(reader) ==
  LET a == usize_read(reader)
  IN  IF ~a.ok THEN a
      ELSE LET b == usize_read(a.reader)
           IN  IF ~b.ok THEN b
               ELSE [ok |-> TRUE, value |-> <<a.value, b.value>>, reader |-> b.reader]

\* for _ in 0..len { elems.push(T::read(reader)?) }
RECURSIVE read_elems(_, _, _)
read_elems(reader, len, elems) ==
  IF len = 0 THEN [ok |-> TRUE, value |-> elems, reader |-> reader]
  ELSE LET e == Edge_read(reader)
       IN  IF ~e.ok THEN e
           ELSE read_elems(e.reader, len - 1, Append(elems, e.value))

\* impl Bytes for Vec<Edge>::read
VecEdge_read(reader) ==
  LET len == u64_read(reader)
  IN  IF ~len.ok THEN len
      ELSE LET reserved == reserve(len.reader, 16)
           IN  IF reserved # "ok"
               THEN [ok |-> FALSE, err |-> <<reserved, len.reader.read>>]
               ELSE read_elems(len.reader, len.value, <<>>)

\* Bytes::from_bytes for Vec<Edge>
VecEdge_from_bytes(bytes, alloc) ==
  LET output == VecEdge_read(BytesReader_new(bytes, alloc))
  IN  IF ~output.ok THEN output
      ELSE LET fin == BytesReader_finish(output.reader)
           IN  IF fin.ok THEN [ok |-> TRUE, value |-> output.value] ELSE fin

\* writers: u64, usize as u64, Edge, Vec<Edge>
u64_write(v) == to_le_bytes(v)

Edge_write(e) == u64_write(e[1]) \o u64_write(e[2])

VecEdge_write(es) ==
  u64_write(Len(es)) \o ConcatAll([k \in 1..Len(es) |-> Edge_write(es[k])])

(***************************************************************************)
(* bytes crate, the Bytes trait for every supported type.  A type is a     *)
(* descriptor [k, ...]: u8, u64, usize, array [T; n], vec Vec<T>, box      *)
(* Box<[T]>, tuple (T1, .., Tn) and record (a struct deriving Bytes, its   *)
(* fields in declaration order).  The value of an array, vec, box, tuple   *)
(* or record is the sequence of its elements or fields.                    *)
(* A writer is [cap, data, panicked]: written is Len(data), and a failed   *)
(* assertion leaves the writer panicked.                                   *)
(***************************************************************************)
BytesWriter_new(capacity) == [cap |-> capacity, data |-> <<>>, panicked |-> FALSE]

\* BytesWriter::write: assert!(self.written + bytes.len() <= self.data.len())
BytesWriter_write(writer, bytes) ==
  IF writer.panicked THEN writer
  ELSE IF Len(writer.data) + Len(bytes) > writer.cap
  THEN [writer EXCEPT !.panicked = TRUE]
  ELSE [writer EXCEPT !.data = writer.data \o bytes]

\* BytesWriter::finish: assert_eq!(self.written, self.data.len())
BytesWriter_finish(writer) ==
  IF writer.panicked \/ Len(writer.data) # writer.cap
  THEN [ok |-> FALSE, panic |-> "BytesWriter"]
  ELSE [ok |-> TRUE, bytes |-> writer.data]

\* size_of::<$ty>()
size_of(t) == IF t.k = "u8" THEN 1 ELSE 8

\* mem::align_of::<T>() and mem::size_of::<T>() of a value in memory on a
\* 64-bit host: a Vec is three words, a Box<[T]> two, and a tuple or struct
\* is its fields rounded up to its alignment
RECURSIVE align_of(_)
align_of(t) ==
  CASE t.k = "u8" -> 1
    [] t.k \in {"u64", "usize", "vec", "box"} -> 8
    [] t.k = "array" -> align_of(t.t)
    [] t.k \in {"tuple", "record"} ->
         LET aligns == {1} \cup {align_of(t.ts[i]) : i \in 1..Len(t.ts)}
         IN  CHOOSE a \in aligns : \A b \in aligns : b <= a

RECURSIVE mem_size(_)
RECURSIVE sum_mem_size(_, _)
sum_mem_size(ts, k) ==
  IF k > Len(ts) THEN 0 ELSE mem_size(ts[k]) + sum_mem_size(ts, k + 1)

mem_size(t) ==
  CASE t.k = "u8" -> 1
    [] t.k \in {"u64", "usize"} -> 8
    [] t.k = "vec" -> 24
    [] t.k = "box" -> 16
    [] t.k = "array" -> t.n * mem_size(t.t)
    [] t.k \in {"tuple", "record"} ->
         LET a == align_of(t)
         IN  ((sum_mem_size(t.ts, 1) + a - 1) \div a) * a

RECURSIVE Bytes_required_size(_, _)
RECURSIVE Bytes_write(_, _, _)
RECURSIVE Bytes_read(_, _)

\* self.iter().map(|elem| elem.required_size()).sum()
RECURSIVE sum_required_size(_, _, _)
sum_required_size(ts, xs, k) ==
  IF k > Len(xs) THEN 0
  ELSE Bytes_required_size(ts[k], xs[k]) + sum_required_size(ts, xs, k + 1)

\* for elem in self { elem.write(writer) }
RECURSIVE write_each(_, _, _, _)
write_each(ts, xs, k, writer) ==
  IF k > Len(xs) THEN writer
  ELSE write_each(ts, xs, k + 1, Bytes_write(ts[k], xs[k], writer))

\* for i in 0..n { elems[i].write(T::read(reader)?) }
RECURSIVE read_each(_, _, _, _)
read_each(ts, k, reader, elems) ==
  IF k > Len(ts) THEN [ok |-> TRUE, value |-> elems, reader |-> reader]
  ELSE LET e == Bytes_read(ts[k], reader)
       IN  IF ~e.ok THEN e
           ELSE read_each(ts, k + 1, e.reader, Append(elems, e.value))

\* n times the element type
repeat(t, n) == [k \in 1..n |-> t]

\* impl_bytes_for_uint!
uint_required_size(t, x) == size_of(t)

uint_write(t, x, writer) == BytesWriter_write(writer, le_bytes(x, size_of(t)))

uint_read(t, reader) ==
  LET r == BytesReader_read(reader, size_of(t))
  IN  IF ~r.ok THEN r
      ELSE [r EXCEPT !.value = IF t.k = "u8" THEN r.value[1]
                                ELSE from_le_bytes(r.value)]

\* impl Bytes for usize (64-bit host: try_into never fails)
usize_required_size(x) == uint_required_size([k |-> "u64"], x)

usize_write(x, writer) == uint_write([k |-> "u64"], x, writer)

\* impl_bytes_for_tuple! and the derive template: the fields in order
fields_required_size(t, x) == sum_required_size(t.ts, x, 1) + 0

fields_write(t, x, writer) == write_each(t.ts, x, 1, writer)

fields_read(t, reader) == read_each(t.ts, 1, reader, <<>>)

\* impl Bytes for [T; N]
array_required_size(t, x) == sum_required_size(repeat(t.t, t.n), x, 1)

array_write(t, x, writer) == write_each(repeat(t.t, t.n), x, 1, writer)

array_read(t, reader) == read_each(repeat(t.t, t.n), 1, reader, <<>>)

\* Vec<T> and Box<[T]>::required_size without the 8 bytes of the length
seq_required_size_no_len(t, x) ==
  sum_required_size(repeat(t.t, Len(x)), x, 1)

\* impl Bytes for Vec<T> and for Box<[T]>: 8 + the elements
seq_required_size(t, x) ==
  8 + sum_required_size(repeat(t.t, Len(x)), x, 1)

seq_write(t, x, writer) ==
  LET len == Len(x)
  IN  write_each(repeat(t.t, len), x, 1, uint_write([k |-> "u64"], len, writer))

\* for _ in 0..len { elems.push(T::read(reader)?) }
RECURSIVE read_len(_, _, _, _)
read_len(t, len, reader, elems) ==
  IF len = 0 THEN [ok |-> TRUE, value |-> elems, reader |-> reader]
  ELSE LET e == Bytes_read(t, reader)
       IN  IF ~e.ok THEN e
           ELSE read_len(t, len - 1, e.reader, Append(elems, e.value))

\* Vec<T>::read with the loop one element short
seq_read_short(t, reader) ==
  LET len == uint_read([k |-> "u64"], reader)
  IN  IF ~len.ok THEN len
      ELSE LET reserved == reserve(len.reader, mem_size(t.t))
           IN  IF reserved # "ok"
               THEN [ok |-> FALSE, err |-> <<reserved, len.reader.read>>]
               ELSE read_len(t.t, IF len.value = 0 THEN 0 ELSE len.value - 1,
                             len.reader, <<>>)

\* impl Bytes for Vec<T> and for Box<[T]>::read
seq_read(t, reader) ==
  LET len == uint_read([k |-> "u64"], reader)
  IN  IF ~len.ok THEN len
      ELSE LET reserved == reserve(len.reader, mem_size(t.t))
           IN  IF reserved # "ok"
               THEN [ok |-> FALSE, err |-> <<reserved, len.reader.read>>]
               ELSE read_len(t.t, len.value, len.reader, <<>>)

\* Bytes::required_size, Bytes::write, Bytes::read of the type t
Bytes_required_size(t, x) ==
  CASE t.k \in {"u8", "u64"} -> uint_required_size(t, x)
    [] t.k = "usize" -> usize_required_size(x)
    [] t.k \in {"tuple", "record"} -> fields_required_size(t, x)
    [] t.k = "array" -> array_required_size(t, x)
    [] t.k \in {"vec", "box"} -> seq_required_size(t, x)

Bytes_write(t, x, writer) ==
  CASE t.k \in {"u8", "u64"} -> uint_write(t, x, writer)
    [] t.k = "usize" -> usize_write(x, writer)
    [] t.k \in {"tuple", "record"} -> fields_write(t, x, writer)
    [] t.k = "array" -> array_write(t, x, writer)
    [] t.k \in {"vec", "box"} -> seq_write(t, x, writer)

Bytes_read(t, reader) ==
  CASE t.k \in {"u8", "u64"} -> uint_read(t, reader)
    [] t.k = "usize" -> usize_read(reader)
    [] t.k \in {"tuple", "record"} -> fields_read(t, reader)
    [] t.k = "array" -> array_read(t, reader)
    [] t.k \in {"vec", "box"} -> seq_read(t, reader)

\* Bytes::to_bytes
to_bytes(t, x) ==
  LET writer == BytesWriter_new(Bytes_required_size(t, x))
  IN  BytesWriter_finish(Bytes_write(t, x, writer))

\* Bytes::from_bytes
from_bytes(t, bytes, alloc) ==
  LET output == Bytes_read(t, BytesReader_new(bytes, alloc))
  IN  IF ~output.ok THEN output
      ELSE LET fin == BytesReader_finish(output.reader)
           IN  IF fin.ok THEN [ok |-> TRUE, value |-> output.value] ELSE fin

(***************************************************************************)
(* sudoku crate, the byte form the verifier uses: a graph is its 90        *)
(* digests of 32 bytes followed by its edges of 16 bytes, with no length   *)
(* in front.  On the wire the digest of an 8-byte input is taken to be the *)
(* input followed by 24 padding bytes; any other 32 bytes are no digest.   *)
(***************************************************************************)
\* mem::size_of::<Output<Sha256>>()
NODE_SIZE == 32
\* mem::size_of::<Edge>()
EDGE_SIZE == 16
\* verification_data.len() != 18
OPENING_SIZE == 18
\* for _ in 0..10
ROUNDS == 10

DigestPad == [i \in 1..(NODE_SIZE - 8) |-> 90]

\* the bytes of an Output<Sha256>
Output_bytes(d) == d[2] \o DigestPad

\* Output::<Sha256>::clone_from_slice
Output_from_slice(b) ==
  IF SubSeq(b, 9, NODE_SIZE) = DigestPad
  THEN Sha256(SubSeq(b, 1, 8)) ELSE <<"bytes", b>>

\* Edge::to_bytes
Edge_to_bytes(e) == to_le_bytes(e[1]) \o to_le_bytes(e[2])

\* Edge::from_bytes
Edge_from_bytes(b) ==
  <<from_le_bytes(SubSeq(b, 1, 8)), from_le_bytes(SubSeq(b, 9, 16))>>

\* Graph<Output<Sha256>>::to_bytes
Graph_to_bytes(graph) ==
  ConcatAll([n \in 1..NUM_GRAPH_NODES |-> Output_bytes(graph.nodes[n - 1])])
    \o ConcatAll([k \in 1..Len(graph.edges) |-> Edge_to_bytes(graph.edges[k])])

\* for _ in 0..num_edges { edges.push(Edge::from_bytes(..)); bytes = &bytes[..16] }
RECURSIVE from_bytes_edges(_, _, _)
from_bytes_edges(bytes, n, edges) ==
  IF n = 0 THEN [edges |-> edges, bytes |-> bytes]
  ELSE from_bytes_edges(SubSeq(bytes, 1, 16), n - 1,
                        Append(edges, Edge_from_bytes(SubSeq(bytes, 1, 16))))

\* Graph<Output<Sha256>>::from_bytes; debug is the build's debug_assert!
Graph_from_bytes(bytes, debug) ==
  LET node_size == NODE_SIZE
      edge_size == EDGE_SIZE
      rest == SubSeq(bytes, node_size * NUM_GRAPH_NODES + 1, Len(bytes))
      nodes == [n \in Nodes |->
                  Output_from_slice(SubSeq(bytes, node_size * n + 1,
                                           node_size * (n + 1)))]
      num_edges == Len(rest) \div edge_size
      loop == from_bytes_edges(rest, num_edges, <<>>)
  IN  IF Len(bytes) < node_size * NUM_GRAPH_NODES
      THEN [ok |-> FALSE, panic |-> FALSE, err |-> "InvalidBytes"]
      ELSE IF Len(rest) % edge_size # 0
      THEN [ok |-> FALSE, panic |-> FALSE, err |-> "InvalidBytes"]
      ELSE IF debug /\ loop.bytes # <<>>
      THEN [ok |-> FALSE, panic |-> TRUE, err |-> "debug_assert"]
      ELSE [ok |-> TRUE, panic |-> FALSE,
            value |-> [nodes |-> nodes, edges |-> loop.edges]]

(***************************************************************************)
(* The commitments response on the wire: Vec<EncryptedGraph<90>>::to_bytes *)
(* through the derived Bytes of graph::Graph { nodes, edges }.             *)
(***************************************************************************)
\* derive Bytes for Graph<90, [u8; 32]>: nodes: [[u8; 32]; 90], then
\* edges: Box<[Edge]> with its 8-byte length
EncryptedGraph_write(g) ==
  ConcatAll([n \in 1..NUM_GRAPH_NODES |-> Output_bytes(g.nodes[n - 1])])
    \o u64_write(Len(g.edges))
    \o ConcatAll([k \in 1..Len(g.edges) |-> Edge_write(g.edges[k])])

\* encrypted_nodes.to_bytes()
encrypted_nodes_to_bytes(gs) ==
  u64_write(Len(gs)) \o ConcatAll([j \in 1..Len(gs) |-> EncryptedGraph_write(gs[j])])

(***************************************************************************)
(* State.                                                                  *)
(***************************************************************************)
VARIABLES
  progress,           \* the shared Sudoku behind the RwLock: [grid, given]
  position,           \* editor cursor <<x, y>>
  exit_app,           \* the editor loop has ended (Esc): the process is gone
  verification_keys,  \* worker: Vec<Keys>, one key vector per sub-round
  mappers,            \* worker: Vec<[u8; 10]>, one mapper per sub-round
  worker,             \* "running", "panicked" once the thread has unwound,
                      \* or "aborted" with the process
  debug_assertions,   \* the build: debug_assert! is compiled in or not
  request,            \* the request the worker took last, with what the worker
                      \*   found: the Sudoku it read and the number of pending
                      \*   (mapper, keys) pairs
  response,           \* what the worker answered to it
  committed,          \* per sub-round of the last commitments response: the
                      \*   mapper and keys drawn, the colours hashed, the digests
  committed_from,     \* the Sudoku that response was computed from
  discarded,          \* pairs that were pending when that request arrived
  opened,             \* challenges answered with openings since that response
  round_discarded,    \* a challenge was refused (decode, length) since then
  steps,              \* keystrokes and requests handled so far
  verifier,           \* the verifier program: where verify() stands
  calc,               \* a library function applied on its own: input and result
  rwlock              \* the RwLock around the Sudoku: who holds it and how far
                      \*   the holder has come

tui_vars == <<progress, position, exit_app>>
history_vars == <<committed, committed_from, discarded, opened, round_discarded>>
worker_vars == <<verification_keys, mappers, worker, request, response,
                 history_vars>>
vars == <<progress, position, exit_app, verification_keys, mappers, worker,
          debug_assertions, request, response, committed, committed_from,
          discarded, opened, round_discarded, steps, verifier, calc, rwlock>>

NoRequest == [method |-> "", path |-> "", query |-> <<>>, body |-> <<>>,
              sudoku |-> PUZZLE, pending |-> 0]
NoResponse == [status |-> 0, kind |-> "none", body |-> <<>>]

\* no commitment behind the graph the verifier holds / nothing received yet
NoCommit == [set |-> FALSE, colors |-> <<>>, keys |-> <<>>]
NoStep == [step |-> "none", status |-> 0, body |-> <<>>, nodes |-> <<>>,
           edge |-> <<0, 0>>]

\* verifier: main() is about to call verify() for the first time.
\* pc, round, nodes and edge are verify()'s position and locals, passes and
\* outcome what main() has printed; commit is what the peer built the graph
\* from and last what the verifier received last and checked it against
VerifierStart ==
  [pc |-> "Connect", round |-> 0, passes |-> 0, outcome |-> "none",
   nodes |-> <<>>, edge |-> <<0, 0>>, commit |-> NoCommit, last |-> NoStep]

NoCalc == [op |-> "none"]

\* nobody holds the lock.  writer is the key being handled under
\* progress.write() and todo the assignments it has still to make; reader is
\* how far Graph::from has come under progress.read(), seen and seen_again
\* what it has read; stable is the Sudoku left by the last completed key
Unlocked ==
  [writer |-> "none", todo |-> <<>>, reader |-> "none",
   seen |-> PUZZLE, seen_again |-> PUZZLE.grid, stable |-> PUZZLE]

Init ==
  /\ progress = PUZZLE
  /\ position = <<0, 0>>
  /\ exit_app = FALSE
  /\ verification_keys = <<>>
  /\ mappers = <<>>
  /\ worker = "running"
  /\ debug_assertions \in BOOLEAN
  /\ request = NoRequest
  /\ response = NoResponse
  /\ committed = <<>>
  /\ committed_from = PUZZLE
  /\ discarded = 0
  /\ opened = 0
  /\ round_discarded = FALSE
  /\ steps = 0
  /\ verifier = VerifierStart
  /\ rwlock = Unlocked
  /\ calc = NoCalc

\* the same programs, not yet used: everything but calc
Idle ==
  /\ progress = PUZZLE
  /\ position = <<0, 0>>
  /\ exit_app = FALSE
  /\ verification_keys = <<>>
  /\ mappers = <<>>
  /\ worker = "running"
  /\ debug_assertions \in BOOLEAN
  /\ request = NoRequest
  /\ response = NoResponse
  /\ committed = <<>>
  /\ committed_from = PUZZLE
  /\ discarded = 0
  /\ opened = 0
  /\ round_discarded = FALSE
  /\ steps = 0
  /\ verifier = VerifierStart
  /\ rwlock = Unlocked

(***************************************************************************)
(* Editor thread: one action per key of run_sudoku_game.  Every key is     *)
(* handled while the write lock is held, so a key is one atomic step.      *)
(***************************************************************************)
\* can_write looking the cursor up as (y, x)
can_write_transposed == ~Contains(progress.given, <<position[2], position[1]>>)

\* !progress.given.contains(&(position.0 as usize, position.1 as usize))
can_write == ~Contains(progress.given, position)

KeyGuard == ~exit_app /\ steps < MaxSteps

SetCell(v) ==
  [progress EXCEPT !.grid[position[2]][position[1]] = v]

KeyEsc ==
  /\ KeyGuard
  /\ exit_app' = TRUE
  /\ steps' = steps + 1
  /\ UNCHANGED <<progress, position, debug_assertions>>
  /\ UNCHANGED worker_vars
  /\ UNCHANGED <<verifier, calc, rwlock>>

KeyLeft ==
  /\ KeyGuard
  /\ position' = <<(position[1] + 8) % 9, position[2]>>
  /\ steps' = steps + 1
  /\ UNCHANGED <<progress, exit_app, debug_assertions>>
  /\ UNCHANGED worker_vars
  /\ UNCHANGED <<verifier, calc, rwlock>>

KeyRight ==
  /\ KeyGuard
  /\ position' = <<(position[1] + 1) % 9, position[2]>>
  /\ steps' = steps + 1
  /\ UNCHANGED <<progress, exit_app, debug_assertions>>
  /\ UNCHANGED worker_vars
  /\ UNCHANGED <<verifier, calc, rwlock>>

KeyUp ==
  /\ KeyGuard
  /\ position' = <<position[1], (position[2] + 8) % 9>>
  /\ steps' = steps + 1
  /\ UNCHANGED <<progress, exit_app, debug_assertions>>
  /\ UNCHANGED worker_vars
  /\ UNCHANGED <<verifier, calc, rwlock>>

KeyDown ==
  /\ KeyGuard
  /\ position' = <<position[1], (position[2] + 1) % 9>>
  /\ steps' = steps + 1
  /\ UNCHANGED <<progress, exit_app, debug_assertions>>
  /\ UNCHANGED worker_vars
  /\ UNCHANGED <<verifier, calc, rwlock>>

\* '0'..='9' if can_write; a digit on a given cell falls to `_ => continue`
KeyDigit ==
  /\ KeyGuard
  /\ can_write
  /\ \E c \in 0..9 : progress' = SetCell(c)
  /\ steps' = steps + 1
  /\ UNCHANGED <<position, exit_app, debug_assertions>>
  /\ UNCHANGED worker_vars
  /\ UNCHANGED <<verifier, calc, rwlock>>

KeySpace ==
  /\ KeyGuard
  /\ can_write
  /\ progress' = SetCell(0)
  /\ steps' = steps + 1
  /\ UNCHANGED <<position, exit_app, debug_assertions>>
  /\ UNCHANGED worker_vars
  /\ UNCHANGED <<verifier, calc, rwlock>>

KeyS ==
  /\ KeyGuard
  /\ progress' = [progress EXCEPT !.grid = SOLUTION.grid]
  /\ steps' = steps + 1
  /\ UNCHANGED <<position, exit_app, debug_assertions>>
  /\ UNCHANGED worker_vars
  /\ UNCHANGED <<verifier, calc, rwlock>>

KeyC ==
  /\ KeyGuard
  /\ progress' = [progress EXCEPT !.grid = PUZZLE.grid]
  /\ steps' = steps + 1
  /\ UNCHANGED <<position, exit_app, debug_assertions>>
  /\ UNCHANGED worker_vars
  /\ UNCHANGED <<verifier, calc, rwlock>>

KeyF ==
  /\ KeyGuard
  /\ progress' = [given |-> PUZZLE.given, grid |-> FAKE_SOLUTION.grid]
  /\ steps' = steps + 1
  /\ UNCHANGED <<position, exit_app, debug_assertions>>
  /\ UNCHANGED worker_vars
  /\ UNCHANGED <<verifier, calc, rwlock>>

KeyG ==
  /\ KeyGuard
  /\ progress' = FAKE_SOLUTION
  /\ steps' = steps + 1
  /\ UNCHANGED <<position, exit_app, debug_assertions>>
  /\ UNCHANGED worker_vars
  /\ UNCHANGED <<verifier, calc, rwlock>>

Key ==
  \/ KeyEsc \/ KeyLeft \/ KeyRight \/ KeyUp \/ KeyDown
  \/ KeyDigit \/ KeySpace \/ KeyS \/ KeyC \/ KeyF \/ KeyG

(***************************************************************************)
(* Protocol worker: one action per arm of the request loop of              *)
(* run_verification_server.  The graph is rebuilt from the shared Sudoku   *)
(* (under the read lock) before the request is looked at; everything after *)
(* that touches only the worker's own data, so a request is one step.      *)
(***************************************************************************)
WorkerGuard == ~exit_app /\ worker = "running" /\ steps < MaxSteps

\* Graph::from panics on its edge-count assertion in a debug build
from_panics(graph) ==
  debug_assertions /\ Len(graph.edges) # expected_edges(progress)

\* the thread unwinds: its vectors are dropped, the request is never answered
Panic(req) ==
  /\ worker' = "panicked"
  /\ request' = req
  /\ response' = NoResponse
  /\ verification_keys' = <<>>
  /\ mappers' = <<>>
  /\ steps' = steps + 1
  /\ UNCHANGED history_vars
  /\ UNCHANGED <<progress, position, exit_app, debug_assertions>>

\* handle_alloc_error: the process aborts, the editor with it
Abort(req) ==
  /\ worker' = "aborted"
  /\ exit_app' = TRUE
  /\ request' = req
  /\ response' = NoResponse
  /\ verification_keys' = <<>>
  /\ mappers' = <<>>
  /\ steps' = steps + 1
  /\ UNCHANGED history_vars
  /\ UNCHANGED <<progress, position, debug_assertions>>

\* request.respond(Response::empty(status)), nothing else changes
Reject(req, status) ==
  /\ request' = req
  /\ response' = [status |-> status, kind |-> "empty", body |-> <<>>]
  /\ steps' = steps + 1
  /\ UNCHANGED <<verification_keys, mappers, worker>>
  /\ UNCHANGED <<committed, committed_from, discarded, opened>>
  /\ UNCHANGED <<progress, position, exit_app, debug_assertions>>

\* query.and_then(split_once('=')).and_then(key == "count")
\*      .and_then(parse::<usize>().ok()).unwrap_or(num_edges).max(1).min(num_edges)
Max(a, b) == IF a >= b THEN a ELSE b
Min(a, b) == IF a <= b THEN a ELSE b

\* count without .max(1)
count_of_no_max(query, num_edges) ==
  LET parsed == IF query # <<>> /\ query[1] = "count" /\ query[2] \in Nat
                THEN query[2] ELSE num_edges
  IN  Min(parsed, num_edges)

count_of(query, num_edges) ==
  LET parsed == IF query # <<>> /\ query[1] = "count" /\ query[2] \in Nat
                THEN query[2] ELSE num_edges
  IN  Min(Max(parsed, 1), num_edges)

\* GET /nodes without verification_keys.clear() and mappers.clear()
GetNodes_keep(graph, query, r) ==
  LET req == [method |-> "GET", path |-> "/nodes", query |-> query, body |-> <<>>,
              sudoku |-> progress, pending |-> Len(verification_keys)]
      count == count_of(query, Len(graph.edges))
      new_mappers == [j \in 1..count |-> shuffle(r, j - 1)]
      new_keys == [j \in 1..count |-> random_keys(r, j - 1)]
      mapped == [j \in 1..count |-> graph_map(graph, new_mappers[j])]
      encrypted_nodes == [j \in 1..count |-> encrypt(mapped[j], new_keys[j])]
  IN  /\ WorkerGuard
      /\ IF from_panics(graph) THEN Panic(req)
         ELSE /\ verification_keys' = verification_keys \o new_keys
              /\ mappers' = mappers \o new_mappers
              /\ request' = req
              /\ response' = [status |-> 200, kind |-> "commitments",
                              body |-> encrypted_nodes]
              /\ committed' = [j \in 1..count |->
                                 [mapper |-> new_mappers[j],
                                  keys |-> new_keys[j],
                                  colors |-> mapped[j].nodes,
                                  digests |-> encrypted_nodes[j].nodes]]
              /\ committed_from' = progress
              /\ discarded' = Len(verification_keys)
              /\ opened' = 0
              /\ round_discarded' = FALSE
              /\ steps' = steps + 1
              /\ UNCHANGED worker
              /\ UNCHANGED <<progress, position, exit_app, debug_assertions>>

\* (Method::Get, "/nodes")
GetNodes(graph, query, r) ==
  LET req == [method |-> "GET", path |-> "/nodes", query |-> query, body |-> <<>>,
              sudoku |-> progress, pending |-> Len(verification_keys)]
      count == count_of(query, Len(graph.edges))
      new_mappers == [j \in 1..count |-> shuffle(r, j - 1)]
      new_keys == [j \in 1..count |-> random_keys(r, j - 1)]
      mapped == [j \in 1..count |-> graph_map(graph, new_mappers[j])]
      encrypted_nodes == [j \in 1..count |-> encrypt(mapped[j], new_keys[j])]
  IN  /\ WorkerGuard
      /\ IF from_panics(graph) THEN Panic(req)
         ELSE /\ verification_keys' = new_keys
              /\ mappers' = new_mappers
              /\ request' = req
              /\ response' = [status |-> 200, kind |-> "commitments",
                              body |-> encrypted_nodes]
              /\ committed' = [j \in 1..count |->
                                 [mapper |-> new_mappers[j],
                                  keys |-> new_keys[j],
                                  colors |-> mapped[j].nodes,
                                  digests |-> encrypted_nodes[j].nodes]]
              /\ committed_from' = progress
              /\ discarded' = Len(verification_keys)
              /\ opened' = 0
              /\ round_discarded' = FALSE
              /\ steps' = steps + 1
              /\ UNCHANGED worker
              /\ UNCHANGED <<progress, position, exit_app, debug_assertions>>

\* combined_mapper[1..].iter_mut().for_each(|v| *v = mapper[*v as usize])
combine(combined_mapper, mapper) ==
  [c \in Colors |-> IF c = 0 THEN combined_mapper[0] ELSE mapper[combined_mapper[c]]]

\* edges.into_iter().zip(verification_keys.iter().zip(&mappers)).map(...).collect()
RECURSIVE verification_data(_, _, _, _, _, _)
verification_data(graph, edges, keys, maps, j, combined_mapper) ==
  IF j > Len(edges) \/ j > Len(keys) \/ j > Len(maps) THEN <<>>
  ELSE LET edge == edges[j]
           val == get_copied(graph, edge)
           next_mapper == combine(combined_mapper, maps[j])
       IN  << <<next_mapper[val[1]], next_mapper[val[2]], keys_get(keys[j], edge)>> >>
             \o verification_data(graph, edges, keys, maps, j + 1, next_mapper)

\* (Method::Post, "/verify"); body is the bytes read, or <<"io_error">>
PostVerify(graph, body, alloc) ==
  LET req == [method |-> "POST", path |-> "/verify", query |-> <<>>, body |-> body,
              sudoku |-> progress, pending |-> Len(verification_keys)]
      decoded == VecEdge_from_bytes(body, alloc)
      edges == decoded.value
  IN  /\ WorkerGuard
      /\ IF from_panics(graph) THEN Panic(req)
         ELSE IF verification_keys = <<>>
           THEN Reject(req, 400) /\ UNCHANGED round_discarded
         ELSE IF body = <<"io_error">>
           THEN Reject(req, 400) /\ UNCHANGED round_discarded
         ELSE IF is_abort(decoded)
           THEN IF decoded.err[1] = "alloc error" THEN Abort(req) ELSE Panic(req)
         ELSE IF ~decoded.ok
           THEN Reject(req, 400) /\ round_discarded' = TRUE
         ELSE IF Len(edges) # Len(verification_keys)
           THEN Reject(req, 400) /\ round_discarded' = TRUE
         ELSE IF \E j \in 1..Len(edges) : ~index_ok(edges[j]) THEN Panic(req)
         ELSE /\ request' = req
              /\ response' = [status |-> 200, kind |-> "openings",
                              body |-> verification_data(graph, edges,
                                         verification_keys, mappers, 1,
                                         identity_mapper)]
              /\ opened' = opened + 1
              /\ steps' = steps + 1
              /\ UNCHANGED <<verification_keys, mappers, worker>>
              /\ UNCHANGED <<committed, committed_from, discarded, round_discarded>>
              /\ UNCHANGED <<progress, position, exit_app, debug_assertions>>

\* _ => respond 404
NotFound(graph, method, path) ==
  LET req == [method |-> method, path |-> path, query |-> <<>>, body |-> <<>>,
              sudoku |-> progress, pending |-> Len(verification_keys)]
  IN  /\ WorkerGuard
      /\ IF from_panics(graph) THEN Panic(req)
         ELSE Reject(req, 404) /\ UNCHANGED round_discarded

(***************************************************************************)
(* Requests the peer sends.                                                *)
(***************************************************************************)
CountQueries == {<<"count", n>> : n \in 0..MaxCount}

\* a row edge, a given-cell-to-constraint-node pair, a cell with itself, two
\* cells sharing no row, column or box, an index past the last node, and a
\* row edge between two cells the puzzle leaves empty
ChallengeEdges ==
  {<<0, 1>>, <<0, 81>>, <<1, 1>>, <<1, 40>>, <<0, 90>>, <<1, 2>>}

\* one edge is any candidate, the others are the row edge
ChallengeLists ==
  {[k \in 1..n |-> IF k = p THEN e ELSE <<0, 1>>] :
     e \in ChallengeEdges, n \in 0..MaxChallenge, p \in 1..MaxChallenge}

WellFormedBodies == {VecEdge_write(es) : es \in ChallengeLists}

one_edge == VecEdge_write(<< <<0, 1>> >>)

MalformedBodies ==
  { <<>>,
    SubSeq(one_edge, 1, Len(one_edge) - 1),
    one_edge \o <<7>>,
    u64_write(2) \o Edge_write(<<0, 1>>),
    <<0, 0, 0, 1, 0, 0, 0, 0>>,
    <<255, 255, 255, 255, 255, 255, 255, 255>>,
    <<"io_error">> }

OtherRequests == {<<"GET", "/graph">>, <<"POST", "/edge">>}

\* let mut graph = Graph::from(&*progress.read().expect("poisoned"));
Request ==
  LET graph == graph_of(progress)
  IN  \/ \E q \in CountQueries, r \in 1..NumStreams :
            GetNodes(graph, q, r) /\ UNCHANGED <<verifier, calc, rwlock>>
      \/ \E body \in WellFormedBodies \cup MalformedBodies, alloc \in BOOLEAN :
            PostVerify(graph, body, alloc) /\ UNCHANGED <<verifier, calc, rwlock>>
      \/ \E o \in OtherRequests :
            NotFound(graph, o[1], o[2]) /\ UNCHANGED <<verifier, calc, rwlock>>

(***************************************************************************)
(* The verifier program: one round of verify() is a GET and a POST, each   *)
(* sent, answered and processed in one step.  status 0 is a connection     *)
(* that ended without a response.                                          *)
(***************************************************************************)
\* return Err(..) out of verify(): main() prints the failure and sleeps
verify_fail(v, outcome, last) ==
  [v EXCEPT !.pc = "Connect", !.round = 0, !.passes = v.passes + 1,
            !.outcome = outcome, !.nodes = <<>>, !.edge = <<0, 0>>,
            !.last = last]

\* a panic on the main thread ends the process
verify_panic(v, last) ==
  [v EXCEPT !.pc = "panicked", !.nodes = <<>>, !.edge = <<0, 0>>, !.last = last]

\* ureq::get(".../graph?count=10").call()?.body_mut().read_to_vec()?,
\* Graph::from_bytes(..)?, encrypted_graph.random_edge()
verify_get(v, status, body, commit, pick) ==
  LET decoded == Graph_from_bytes(body, debug_assertions)
      last == [step |-> "get", status |-> status, body |-> body,
               nodes |-> <<>>, edge |-> <<0, 0>>]
      started == [v EXCEPT !.outcome = IF v.round = 0 THEN "none" ELSE @,
                           !.commit = commit]
  IN  IF status = 0 THEN verify_fail(started, "Io", last)
      ELSE IF status >= 400 THEN verify_fail(started, "StatusCode", last)
      ELSE IF decoded.panic THEN verify_panic(started, last)
      ELSE IF ~decoded.ok THEN verify_fail(started, decoded.err, last)
      ELSE IF decoded.value.edges = <<>> THEN verify_panic(started, last)
      ELSE [started EXCEPT !.pc = "WaitOpenings",
                           !.nodes = decoded.value.nodes,
                           !.edge = decoded.value.edges[pick],
                           !.last = last]

\* ureq::post(".../edge").send(&edge.to_bytes())?.body_mut().read_to_vec()?
\* and the checks on the 18 bytes
verify_post(v, status, body) ==
  LET last == [step |-> "post", status |-> status, body |-> body,
               nodes |-> v.nodes, edge |-> v.edge]
      values == <<body[1], body[2]>>
      keys == <<from_le_bytes(SubSeq(body, 3, 10)),
                from_le_bytes(SubSeq(body, 11, 18))>>
      verdict == verify_opening(v.nodes, v.edge, values, keys)
  IN  IF status = 0 THEN verify_fail(v, "Io", last)
      ELSE IF status >= 400 THEN verify_fail(v, "StatusCode", last)
      ELSE IF Len(body) # OPENING_SIZE
        THEN verify_fail(v, "InvalidVerificationData", last)
      ELSE IF verdict = "panic" THEN verify_panic(v, last)
      ELSE IF verdict # "Ok" THEN verify_fail(v, verdict, last)
      ELSE IF v.round + 1 = ROUNDS
        THEN [v EXCEPT !.pc = "Connect", !.round = 0, !.passes = v.passes + 1,
                       !.outcome = "Success", !.nodes = <<>>,
                       !.edge = <<0, 0>>, !.last = last]
      ELSE [v EXCEPT !.pc = "Connect", !.round = v.round + 1, !.nodes = <<>>,
                     !.edge = <<0, 0>>, !.last = last]

VerifierGuard == verifier.pc # "panicked" /\ verifier.passes < MaxPasses

\* the verifier against the prover: its two requests go to the worker, which
\* knows neither /graph nor /edge
VerifierRound ==
  LET graph == graph_of(progress)
  IN  /\ VerifierGuard
      /\ IF verifier.pc = "Connect"
         THEN /\ NotFound(graph, "GET", "/graph")
              /\ verifier' = verify_get(verifier, response'.status,
                                        response'.body, NoCommit, 1)
         ELSE /\ NotFound(graph, "POST", "/edge")
              /\ verifier' = verify_post(verifier, response'.status,
                                         response'.body)
      /\ UNCHANGED <<calc, rwlock>>

Next == Key \/ Request \/ VerifierRound

Spec == Init /\ [][Next]_vars

(***************************************************************************)
(* The library functions on their own: an input is drawn at the start and  *)
(* one step applies the function to it.                                    *)
(***************************************************************************)
\* grids the editor can hand to the worker: the puzzle, all cells given
\* ('g'), and all cells given with the puzzle's grid ('g' then 'c')
CalcSudokus ==
  {PUZZLE, FAKE_SOLUTION, [FAKE_SOLUTION EXCEPT !.grid = PUZZLE.grid]}

\* count values next to a number of edges
CountsNear(num_edges) ==
  (0..MaxCount) \cup ((num_edges - MaxCount)..(num_edges + MaxCount))

\* the query of a GET /nodes: none, count=n, another key, count=<not a usize>
CalcQueries(num_edges) ==
  {<<>>, <<"limit", 1>>, <<"count", -1>>}
    \cup {<<"count", n>> : n \in CountsNear(num_edges)}

CountInputs ==
  UNION {LET num_edges == Len(graph_edges(s))
         IN  {[op |-> "count", done |-> FALSE, query |-> q,
               num_edges |-> num_edges, result |-> 0] : q \in CalcQueries(num_edges)}
         : s \in CalcSudokus}

\* let count = query....unwrap_or(num_edges).max(1).min(num_edges)
ApplyCount ==
  /\ calc.op = "count"
  /\ ~calc.done
  /\ calc' = [calc EXCEPT !.done = TRUE,
                          !.result = count_of(calc.query, calc.num_edges)]
  /\ UNCHANGED <<tui_vars, worker_vars, debug_assertions, steps, verifier,
               rwlock>>

\* the types the programs encode, with small parameters
T_u8 == [k |-> "u8"]
T_u64 == [k |-> "u64"]
T_usize == [k |-> "usize"]
T_array(t) == [k |-> "array", n |-> ArrayLen, t |-> t]
T_vec(t) == [k |-> "vec", t |-> t]
T_box(t) == [k |-> "box", t |-> t]
T_tuple(ts) == [k |-> "tuple", ts |-> ts]
T_record(ts) == [k |-> "record", ts |-> ts]

\* graph::Edge(pub usize, pub usize)
T_Edge == T_record(<<T_usize, T_usize>>)

\* graph::Graph { nodes: [T; NUM_NODES], edges: Box<[Edge]> }
T_Graph(t) == T_record(<<T_array(t), T_box(T_Edge)>>)

\* one opening: ((u8, u8), (u64, u64))
T_Opening == T_tuple(<<T_tuple(<<T_u8, T_u8>>), T_tuple(<<T_u64, T_u64>>)>>)

CodecTypes ==
  << T_u8, T_u64, T_usize,
     T_array(T_u8), T_array(T_u64),
     T_vec(T_u8), T_box(T_u64), T_vec(T_vec(T_u8)),
     T_tuple(<<T_u8, T_u64, T_vec(T_u8)>>),
     T_Edge, T_vec(T_Edge), T_Opening, T_vec(T_Opening),
     T_Graph(T_u8), T_array(T_array(T_u8)), T_vec(T_array(T_u8)) >>

ByteVals == {0, 255}
U64Vals == {258, U64_LARGE - 1}
UsizeVals == {0, 65536 + 89}

RECURSIVE Values(_)
RECURSIVE FieldValues(_, _)
\* the values of a type, sequences up to MaxLen long
Values(t) ==
  CASE t.k = "u8" -> ByteVals
    [] t.k = "u64" -> U64Vals
    [] t.k = "usize" -> UsizeVals
    [] t.k \in {"tuple", "record"} -> FieldValues(t.ts, 1)
    [] t.k = "array" -> [1..t.n -> Values(t.t)]
    [] t.k \in {"vec", "box"} -> UNION {[1..n -> Values(t.t)] : n \in 0..MaxLen}

FieldValues(ts, k) ==
  IF k > Len(ts) THEN {<<>>}
  ELSE {<<h>> \o r : h \in Values(ts[k]), r \in FieldValues(ts, k + 1)}

\* a value of a supported type, about to be encoded
CodecInput(t, x) ==
  [op |-> "codec", stage |-> "input", type |-> t, value |-> x,
   encoded |-> [ok |-> FALSE], decoded |-> [ok |-> FALSE],
   damage |-> <<"none", 0>>, damaged |-> <<>>, redecoded |-> [ok |-> FALSE]]

\* let bytes = x.to_bytes()
ApplyToBytes ==
  /\ calc.op = "codec"
  /\ calc.stage = "input"
  /\ calc' = [calc EXCEPT !.stage = "encoded",
                          !.encoded = to_bytes(calc.type, calc.value)]
  /\ UNCHANGED <<tui_vars, worker_vars, debug_assertions, steps, verifier,
               rwlock>>

\* T::from_bytes(&bytes)
ApplyFromBytes ==
  /\ calc.op = "codec"
  /\ calc.stage = "encoded"
  /\ calc.encoded.ok
  /\ calc' = [calc EXCEPT !.stage = "decoded",
                          !.decoded = from_bytes(calc.type, calc.encoded.bytes,
                                                 TRUE)]
  /\ UNCHANGED <<tui_vars, worker_vars, debug_assertions, steps, verifier,
               rwlock>>

\* the encoding with one byte appended, and every proper prefix of it
Damages(bytes) ==
  {<<"append", b>> : b \in ByteVals} \cup {<<"prefix", n>> : n \in 0..Len(bytes) - 1}

damage_bytes(bytes, d) ==
  IF d[1] = "append" THEN Append(bytes, d[2]) ELSE SubSeq(bytes, 1, d[2])

\* T::from_bytes of a damaged copy of bytes that decoded
ApplyFromBytesDamaged ==
  /\ calc.op = "codec"
  /\ calc.stage = "decoded"
  /\ calc.decoded.ok
  /\ \E d \in Damages(calc.encoded.bytes), alloc \in BOOLEAN :
        LET bytes == damage_bytes(calc.encoded.bytes, d)
        IN  calc' = [calc EXCEPT !.stage = "damaged",
                                 !.damage = d,
                                 !.damaged = bytes,
                                 !.redecoded = from_bytes(calc.type, bytes, alloc)]
  /\ UNCHANGED <<tui_vars, worker_vars, debug_assertions, steps, verifier,
               rwlock>>

\* encrypted graphs for the hand-written form of the sudoku crate: the
\* commitments of the puzzle with up to MaxLen edges
GraphEdgeLists ==
  UNION {[1..n -> {<<0, 1>>, <<0, 81>>}] : n \in 0..MaxLen}

GraphInputs ==
  {[op |-> "graph", stage |-> "input",
    graph |-> [nodes |-> [n \in Nodes |->
                            hash(graph_nodes(PUZZLE)[n], random_keys(1, 0)[n])],
               edges |-> es],
    bytes |-> <<>>, cut |-> 0,
    decoded |-> [ok |-> FALSE, panic |-> FALSE, err |-> ""]] :
     es \in GraphEdgeLists}

\* let bytes = graph.to_bytes()
ApplyGraphToBytes ==
  /\ calc.op = "graph"
  /\ calc.stage = "input"
  /\ calc' = [calc EXCEPT !.stage = "encoded", !.bytes = Graph_to_bytes(calc.graph)]
  /\ UNCHANGED <<tui_vars, worker_vars, debug_assertions, steps, verifier,
               rwlock>>

\* the whole encoding, or a prefix of it that ends inside a digest, inside an
\* edge or between two edges
GraphCuts(bytes) ==
  {n \in {0, NODE_SIZE * NUM_GRAPH_NODES - 1, NODE_SIZE * NUM_GRAPH_NODES,
          NODE_SIZE * NUM_GRAPH_NODES + 1, Len(bytes) - 1, Len(bytes)} :
     n \in 0..Len(bytes)}

\* Graph::from_bytes(&bytes[..cut])
ApplyGraphFromBytes ==
  /\ calc.op = "graph"
  /\ calc.stage = "encoded"
  /\ \E cut \in GraphCuts(calc.bytes) :
        calc' = [calc EXCEPT !.stage = "decoded",
                             !.cut = cut,
                             !.decoded = Graph_from_bytes(SubSeq(calc.bytes, 1, cut),
                                                          debug_assertions)]
  /\ UNCHANGED <<tui_vars, worker_vars, debug_assertions, steps, verifier,
               rwlock>>

\* length prefixes that announce more than any payload below holds: 3,
\* 2^24, 2^59 and 2^64 - 1
HostileLengths ==
  { <<3, 0, 0, 0, 0, 0, 0, 0>>,
    <<0, 0, 0, 1, 0, 0, 0, 0>>,
    <<0, 0, 0, 0, 0, 0, 0, 8>>,
    <<255, 255, 255, 255, 255, 255, 255, 255>> }

\* up to ArrayLen bytes, or one whole edge, behind the length; a payload is
\* used with the types of which it holds fewer than 3 elements
HostilePayloads ==
  UNION {[1..n -> {7}] : n \in (0..ArrayLen) \cup {EDGE_SIZE}}

HostileTypes == <<T_vec(T_u8), T_box(T_u64), T_vec(T_Edge)>>

\* bytes of a peer that lies about the length of a sequence
HostileInput(t, bytes) ==
  [op |-> "hostile", done |-> FALSE, type |-> t, bytes |-> bytes,
   alloc |-> TRUE, result |-> [ok |-> FALSE]]

\* T::from_bytes(&bytes), the allocator granting large reservations or not
ApplyFromBytesHostile ==
  /\ calc.op = "hostile"
  /\ ~calc.done
  /\ \E alloc \in BOOLEAN :
        calc' = [calc EXCEPT !.done = TRUE,
                             !.alloc = alloc,
                             !.result = from_bytes(calc.type, calc.bytes, alloc)]
  /\ UNCHANGED <<tui_vars, worker_vars, debug_assertions, steps, verifier,
               rwlock>>

CalcInit ==
  /\ Idle
  /\ \/ calc \in CountInputs
     \/ \E i \in 1..Len(HostileTypes) :
           \E len \in HostileLengths, payload \in HostilePayloads :
              /\ Len(payload) < 3 * mem_size(HostileTypes[i].t)
              /\ calc = HostileInput(HostileTypes[i], len \o payload)
     \/ calc \in GraphInputs
     \/ \E i \in 1..Len(CodecTypes) :
           \E x \in Values(CodecTypes[i]) : calc = CodecInput(CodecTypes[i], x)

CalcNext ==
  \/ ApplyCount \/ ApplyToBytes \/ ApplyFromBytes \/ ApplyFromBytesDamaged
  \/ ApplyGraphToBytes \/ ApplyGraphFromBytes \/ ApplyFromBytesHostile

CalcSpec == CalcInit /\ [][CalcNext]_vars

(***************************************************************************)
(* The verifier on its own, against any peer that answers its two          *)
(* requests: the peer's replies are drawn from the sets below.             *)
(***************************************************************************)
\* grids a peer may have committed to: the solved puzzle and the puzzle
PeerSudokus == {[PUZZLE EXCEPT !.grid = SOLUTION.grid], PUZZLE}

PeerCommits ==
  {[set |-> TRUE,
    colors |-> graph_map(graph_of(sdk), shuffle(1, 0)).nodes,
    keys |-> random_keys(r, 0)] : sdk \in PeerSudokus, r \in 1..NumStreams}

\* edge lists a peer may send: none, a row edge, two edges, an edge to a
\* constraint node, an edge to an index past the last node
PeerEdgeLists ==
  { <<>>,
    << <<0, 1>> >>,
    << <<1, 2>>, <<0, 1>> >>,
    << <<0, 81>> >>,
    << <<1, 90>> >> }

peer_graph(commit, edges) ==
  Graph_to_bytes(encrypt([nodes |-> commit.colors, edges |-> edges], commit.keys))

GraphReplies ==
  {[status |-> 200, body |-> peer_graph(c, es), commit |-> c] :
      c \in PeerCommits, es \in PeerEdgeLists}
  \cup {[status |-> 200,
         body |-> SubSeq(peer_graph(c, <<>>), 1, NODE_SIZE * NUM_GRAPH_NODES - 1),
         commit |-> c] : c \in PeerCommits}
  \cup {[status |-> 200,
         body |-> peer_graph(c, << <<0, 1>> >>) \o <<0>>,
         commit |-> c] : c \in PeerCommits}
  \cup {[status |-> 404, body |-> <<>>, commit |-> c] : c \in PeerCommits}

\* the opening of the edge out of the commitment, and variations of it
opening_bytes(values, keys) ==
  <<values[1], values[2]>> \o to_le_bytes(keys[1]) \o to_le_bytes(keys[2])

OpeningReplies(v) ==
  LET a == v.edge[1]
      b == v.edge[2]
      ca == IF a \in Nodes THEN v.commit.colors[a] ELSE 1
      cb == IF b \in Nodes THEN v.commit.colors[b] ELSE 2
      ka == IF a \in Nodes THEN v.commit.keys[a] ELSE 0
      kb == IF b \in Nodes THEN v.commit.keys[b] ELSE 0
      other(k) == (k + 1) % (2 ^ KeyBits)
      honest == opening_bytes(<<ca, cb>>, <<ka, kb>>)
  IN  { [status |-> 200, body |-> honest],
        [status |-> 200, body |-> opening_bytes(<<ca, cb>>, <<other(ka), kb>>)],
        [status |-> 200, body |-> opening_bytes(<<ca, cb>>, <<ka, other(kb)>>)],
        [status |-> 200, body |-> opening_bytes(<<ca, ca>>, <<ka, ka>>)],
        [status |-> 200, body |-> opening_bytes(<<ca, ca>>, <<ka, other(kb)>>)],
        [status |-> 200,
         body |-> opening_bytes(<<bitxor(ca, 1), cb>>, <<bitxor(ka, 1), kb>>)],
        [status |-> 200, body |-> SubSeq(honest, 1, OPENING_SIZE - 1)],
        [status |-> 200, body |-> honest \o <<0>>],
        [status |-> 200, body |-> to_le_bytes(1) \o honest],
        [status |-> 400, body |-> <<>>] }

\* one GET of verify(), answered by the peer
GetGraph ==
  /\ VerifierGuard
  /\ verifier.pc = "Connect"
  /\ \E reply \in GraphReplies :
        LET decoded == Graph_from_bytes(reply.body, FALSE)
            num_edges == IF decoded.ok THEN Len(decoded.value.edges) ELSE 0
        IN  \E pick \in 1..Max(1, num_edges) :
              verifier' = verify_get(verifier, reply.status, reply.body,
                                     reply.commit, pick)
  /\ UNCHANGED <<tui_vars, worker_vars, debug_assertions, steps, calc, rwlock>>

\* one POST of verify(), answered by the peer
PostEdge ==
  /\ VerifierGuard
  /\ verifier.pc = "WaitOpenings"
  /\ \E reply \in OpeningReplies(verifier) :
        verifier' = verify_post(verifier, reply.status, reply.body)
  /\ UNCHANGED <<tui_vars, worker_vars, debug_assertions, steps, calc, rwlock>>

VerifierInit == Idle /\ calc = NoCalc

VerifierNext == GetGraph \/ PostEdge

VerifierSpec == VerifierInit /\ [][VerifierNext]_vars

(***************************************************************************)
(* The two threads of the prover around the RwLock, one step per access to *)
(* the Sudoku.  The editor takes progress.write() for a key, makes the     *)
(* assignments of its match arm one by one and drops the guard; the worker *)
(* takes progress.read() for the statement that builds the graph, reads    *)
(* the grid in the loop over the cells, reads the givens and the grid      *)
(* again in the loop over the givens, and drops the guard.  steps counts   *)
(* the keys handled.                                                       *)
(***************************************************************************)
LockKeys == {"Right", "5", " ", "s", "c", "f", "g"}

\* the assignments of a key in the order its match arm makes them; the
\* fields of *progress = FAKE_SOLUTION.clone() are moved in either order
assignments(key) ==
  CASE key = "Right" -> {<<"position">>}
    [] key \in {"5", " "} -> IF can_write THEN {<<"cell">>} ELSE {<<>>}
    [] key \in {"s", "c"} -> {<<"grid">>}
    [] key = "f" -> {<<"given", "grid">>}
    [] key = "g" -> {<<"given", "grid">>, <<"grid", "given">>}

grid_of(key) ==
  CASE key = "s" -> SOLUTION.grid
    [] key = "c" -> PUZZLE.grid
    [] key \in {"f", "g"} -> FAKE_SOLUTION.grid

given_of(key) == IF key = "f" THEN PUZZLE.given ELSE FAKE_SOLUTION.given

\* RwLock::read granted whoever holds the lock
read_granted_during_write == TRUE

\* RwLock::read returns once no writer holds the lock
read_granted == rwlock.writer = "none"

\* RwLock::write returns once nobody holds the lock
write_granted == rwlock.writer = "none" /\ rwlock.reader \in {"none", "done"}

\* let mut progress = progress.write().expect("poisoned")
WriteLock ==
  /\ ~exit_app /\ steps < MaxSteps
  /\ write_granted
  /\ \E key \in LockKeys : \E todo \in assignments(key) :
        rwlock' = [rwlock EXCEPT !.writer = key, !.todo = todo]
  /\ UNCHANGED <<tui_vars, worker_vars, debug_assertions, steps, verifier, calc>>

\* one assignment of the match arm
WriteAssign ==
  /\ rwlock.writer # "none" /\ rwlock.todo # <<>>
  /\ LET key == rwlock.writer
         field == Head(rwlock.todo)
     IN  /\ position' = IF field = "position"
                        THEN <<(position[1] + 1) % 9, position[2]>>
                        ELSE position
         /\ progress' =
              CASE field = "position" -> progress
                [] field = "cell" -> SetCell(IF key = "5" THEN 5 ELSE 0)
                [] field = "grid" -> [progress EXCEPT !.grid = grid_of(key)]
                [] field = "given" -> [progress EXCEPT !.given = given_of(key)]
  /\ rwlock' = [rwlock EXCEPT !.todo = Tail(rwlock.todo)]
  /\ UNCHANGED <<exit_app, worker_vars, debug_assertions, steps, verifier, calc>>

\* the guard is dropped at the end of the if-let block
WriteUnlock ==
  /\ rwlock.writer # "none" /\ rwlock.todo = <<>>
  /\ rwlock' = [rwlock EXCEPT !.writer = "none", !.stable = progress]
  /\ steps' = steps + 1
  /\ UNCHANGED <<tui_vars, worker_vars, debug_assertions, verifier, calc>>

\* progress.read().expect("poisoned")
ReadLock ==
  /\ worker = "running"
  /\ rwlock.reader \in {"none", "done"}
  /\ read_granted
  /\ rwlock' = [rwlock EXCEPT !.reader = "locked"]
  /\ UNCHANGED <<tui_vars, worker_vars, debug_assertions, steps, verifier, calc>>

\* Graph::from, for (y, row) in sudoku.grid.into_iter().enumerate()
ReadGrid ==
  /\ rwlock.reader = "locked"
  /\ rwlock' = [rwlock EXCEPT !.reader = "cells", !.seen.grid = progress.grid]
  /\ UNCHANGED <<tui_vars, worker_vars, debug_assertions, steps, verifier, calc>>

\* Graph::from, for (i, j) in sudoku.given ... let value = sudoku.grid[j][i]
ReadGiven ==
  /\ rwlock.reader = "cells"
  /\ rwlock' = [rwlock EXCEPT !.reader = "built",
                              !.seen.given = progress.given,
                              !.seen_again = progress.grid]
  /\ UNCHANGED <<tui_vars, worker_vars, debug_assertions, steps, verifier, calc>>

\* the guard is a temporary of the let statement
ReadUnlock ==
  /\ rwlock.reader = "built"
  /\ rwlock' = [rwlock EXCEPT !.reader = "done"]
  /\ UNCHANGED <<tui_vars, worker_vars, debug_assertions, steps, verifier, calc>>

LockInit == Idle /\ calc = NoCalc

LockNext ==
  \/ WriteLock \/ WriteAssign \/ WriteUnlock
  \/ ReadLock \/ ReadGrid \/ ReadGiven \/ ReadUnlock

LockSpec == LockInit /\ [][LockNext]_vars

(***************************************************************************)
(* Properties.                                                             *)
(***************************************************************************)
is_challenge(req) == req.method = "POST" /\ req.path = "/verify"

\* the edges of the challenge the worker took last (decoded payload)
challenge == VecEdge_from_bytes(request.body, TRUE)

\* the graph the worker built for the request it took last
request_graph == graph_of(request.sudoku)

\* every row, column and box constraint holds and no cell is empty
valid_complete(s) ==
  LET nodes == graph_nodes(s)
  IN  /\ \A n \in 0..80 : nodes[n] \in 1..9
      /\ \A k \in 1..Len(cell_edges) :
            nodes[cell_edges[k][1]] # nodes[cell_edges[k][2]]

\* C1: for a valid completed Sudoku that is the same at commit and at
\* challenge, and a challenge made of edges of G, the opening of every
\* sub-round j is ((M_j[G.nodes[a_j]], M_j[G.nodes[b_j]]), (K_j[a_j], K_j[b_j]))
\* with the mapper and keys drawn for sub-round j, and the verifier's checks
\* against commitment_j pass.
C1_OpeningsMatchCommitments ==
  ( /\ response.kind = "openings"
    /\ request.sudoku = committed_from
    /\ valid_complete(committed_from)
    /\ \A j \in 1..Len(challenge.value) :
          Contains(request_graph.edges, challenge.value[j]) )
  => \A j \in 1..Len(response.body) :
       LET e == challenge.value[j]
           o == response.body[j]
           G == request_graph
       IN  /\ o[1] = committed[j].mapper[G.nodes[e[1]]]
           /\ o[2] = committed[j].mapper[G.nodes[e[2]]]
           /\ o[3] = keys_get(committed[j].keys, e)
           /\ verify_opening(committed[j].digests, e, <<o[1], o[2]>>, o[3]) = "Ok"

\* C2: after a challenge has been answered with openings the prover is Idle:
\* no second challenge is answered with openings before the next commitments
\* request.
C2_IdleAfterOpenings == opened <= 1

\* C3: every pair the prover opens is an element of the edge sequence of G.
C3_OnlyEdgesOpened ==
  response.kind = "openings"
  => \A j \in 1..Len(challenge.value) :
       Contains(request_graph.edges, challenge.value[j])

\* C4: no commitment has a second opening (c', k') with another colour that
\* passes the verifier's hash check.
C4_CommitmentBinding ==
  \A j \in 1..Len(committed) : \A n \in Nodes :
    \A c \in Colors : \A k \in KeyValues :
      hash_check(committed[j].digests[n], c, k) => c = committed[j].colors[n]

\* C5: a grid that satisfies every row, column and box constraint but differs
\* from the puzzle at a given cell yields a graph with an edge whose two
\* endpoint colours are equal.
C5_AnchorsForceGivens ==
  ( /\ valid_complete(progress)
    /\ \E g \in 1..Len(PUZZLE.given) :
          LET x == PUZZLE.given[g][1]
              y == PUZZLE.given[g][2]
          IN  /\ Contains(progress.given, <<x, y>>)
              /\ progress.grid[y][x] # PUZZLE.grid[y][x] )
  => LET G == graph_of(progress)
     IN  \E k \in 1..Len(G.edges) :
           G.nodes[G.edges[k][1]] = G.nodes[G.edges[k][2]]

\* C6: in the graph of the reduction node 80 + v holds colour v for v in 1..9
\* and node 9 * y + x holds grid[y][x].
C6_NodeColors ==
  LET G == graph_of(progress)
  IN  /\ \A v \in 1..9 : G.nodes[ANCHOR_BASE + v] = v
      /\ \A x \in Cells, y \in Cells : G.nodes[9 * y + x] = progress.grid[y][x]

\* C7: every coordinate (x, y) in given has grid[y][x] in 1..9.
C7_GivenCellsFilled ==
  \A g \in 1..Len(progress.given) :
    progress.grid[progress.given[g][2]][progress.given[g][1]] \in 1..9

\* C8: a challenge that arrives with nothing pending, or does not decode, or
\* has a length other than the pending N, gets a 400-class response with no
\* colour or key in it.
C8_BadChallengeRejected ==
  ( /\ is_challenge(request)
    /\ \/ request.pending = 0
       \/ ~challenge.ok
       \/ Len(challenge.value) # request.pending )
  => /\ response.status \in 400..499
     /\ response.body = <<>>

\* C9: once a challenge was refused for its payload (decode or length), the
\* pending state is cleared and no challenge is answered with openings before
\* the next commitments request.
C9_RefusedRoundIsCleared ==
  round_discarded
  => /\ verification_keys = <<>>
     /\ mappers = <<>>
     /\ response.kind # "openings"

\* C10: the pending pairs are exactly those drawn for the last commitments
\* request (none of an earlier request survives), a challenge is answered only
\* if it has as many edges as that request committed, and its openings carry
\* the keys of that request.
C10_CommitReplacesPending ==
  /\ worker = "running" =>
       /\ verification_keys = [j \in 1..Len(committed) |-> committed[j].keys]
       /\ mappers = [j \in 1..Len(committed) |-> committed[j].mapper]
  /\ response.kind = "openings" =>
       /\ Len(challenge.value) = Len(committed)
       /\ Len(response.body) = Len(committed)
       /\ \A j \in 1..Len(response.body) :
            response.body[j][3] = keys_get(committed[j].keys, challenge.value[j])

\* a commitments request replaced a pending set of another size and a
\* challenge was then answered
C10_Witness ==
  /\ discarded > 0
  /\ discarded # Len(committed)
  /\ response.kind = "openings"
  /\ opened = 1


(***************************************************************************)
(* C16.  Committing a graph: in a commitments response, array j holds at   *)
(* every node n the SHA-256 of the 8 little-endian bytes of                *)
(* (colour of n) XOR (key kept for n), the edge sequence is the one of the *)
(* graph that was committed, and so for every edge re-hashing each         *)
(* endpoint's colour with its key gives that endpoint's commitment.        *)
(***************************************************************************)
C16_CommitmentIsKeyedHash ==
  response.kind = "commitments" =>
    LET edges == request_graph.edges
    IN
    /\ Len(response.body) = Len(verification_keys)
    /\ \A j \in 1..Len(response.body) :
         LET enc == response.body[j]
             col == committed[j].colors
             key == verification_keys[j]
         IN  /\ DOMAIN enc.nodes = Nodes
             /\ \A n \in Nodes :
                  enc.nodes[n] = Sha256(to_le_bytes(bitxor(col[n], key[n])))
             /\ enc.edges = edges
             /\ \A e \in 1..Len(edges) :
                  LET a == edges[e][1]
                      b == edges[e][2]
                  IN  /\ hash_check(enc.nodes[a], col[a], key[a])
                      /\ hash_check(enc.nodes[b], col[b], key[b])

\* a commitments response of two arrays over a grid with a non-zero key
C16_Witness ==
  /\ response.kind = "commitments"
  /\ Len(response.body) = 2
  /\ \E n \in Nodes : committed[2].colors[n] # 0 /\ verification_keys[2][n] # 0
  /\ Len(response.body[1].edges) > CELL_EDGES

(***************************************************************************)
(* C17.  Whenever the Sudoku a request was served from has every given     *)
(* cell holding a value in 1..9, its graph has exactly 90 nodes and        *)
(* exactly 810 + 8 * (number of given cells) edges, and the edge-count     *)
(* assertion of the reduction holds.                                       *)
(***************************************************************************)
givens_filled(s) ==
  \A g \in 1..Len(s.given) : s.grid[s.given[g][2]][s.given[g][1]] \in 1..9

C17_NodeAndEdgeCount ==
  (request.method # "" /\ givens_filled(request.sudoku)) =>
    /\ Cardinality(DOMAIN request_graph.nodes) = 90
    /\ Len(request_graph.edges) = 810 + 8 * Len(request.sudoku.given)
    /\ edge_count_ok(request.sudoku)
    /\ (debug_assertions /\ worker = "panicked" => request.path = "/verify")

\* a request served from the grid with all 81 cells given (key 'g')
C17_Witness ==
  /\ request.method # ""
  /\ givens_filled(request.sudoku)
  /\ Len(request.sudoku.given) = 81
  /\ debug_assertions
  /\ response.status = 200

(***************************************************************************)
(* C18.  Every edge (a, b) of the graph built for a request has a < b,     *)
(* a < 90 and b < 90, whatever the grid and the given list are.            *)
(***************************************************************************)
C18_EdgesOrdered ==
  request.method # "" =>
    LET edges == request_graph.edges
    IN  \A e \in 1..Len(edges) :
           LET a == edges[e][1]
               b == edges[e][2]
           IN  a \in Nat /\ b \in Nat /\ a < b /\ a < 90 /\ b < 90

\* a request served from a grid whose given cells are not all filled
C18_Witness ==
  /\ request.method # ""
  /\ ~givens_filled(request.sudoku)
  /\ LET edges == request_graph.edges
     IN  \E e \in 1..Len(edges) : edges[e][2] = 89

(***************************************************************************)
(* C11.  The number N of commitment arrays of a commitments request is the *)
(* count value clamped to [1, num_edges], and num_edges when there is no   *)
(* count; so 1 <= N <= num_edges, for count = 0 and for count above        *)
(* num_edges too.                                                          *)
(***************************************************************************)
C11_CountClamped ==
  (calc.op = "count" /\ calc.done) =>
    LET N == calc.result
        num_edges == calc.num_edges
        q == calc.query
    IN  /\ 1 <= N /\ N <= num_edges
        /\ q = <<>> => N = num_edges
        /\ (q # <<>> /\ q[1] = "count" /\ q[2] >= 0) =>
             /\ q[2] < 1 => N = 1
             /\ q[2] > num_edges => N = num_edges
             /\ (1 <= q[2] /\ q[2] <= num_edges) => N = q[2]

\* count=0 was clamped up to 1
C11_Witness ==
  /\ calc.op = "count" /\ calc.done
  /\ calc.query = <<"count", 0>>
  /\ calc.result = 1

\* a count above the number of edges was clamped down
C11_WitnessAbove ==
  /\ calc.op = "count" /\ calc.done
  /\ calc.query # <<>> /\ calc.query[1] = "count" /\ calc.query[2] > calc.num_edges
  /\ calc.result = calc.num_edges

(***************************************************************************)
(* C19.  Codec round trip: for every value x of a supported type, decoding *)
(* the bytes to_bytes(x) gave returns Ok(x), with no error and nothing     *)
(* left over.                                                              *)
(***************************************************************************)
C19_RoundTrip ==
  (calc.op = "codec" /\ calc.stage = "decoded") =>
    /\ calc.decoded.ok
    /\ calc.decoded.value = calc.value

\* a graph record with two edges came back from its bytes
C19_Witness ==
  /\ calc.op = "codec" /\ calc.stage = "decoded"
  /\ calc.type = T_Graph(T_u8)
  /\ Len(calc.value[2]) = 2
  /\ calc.value[2][1] # calc.value[2][2]
  /\ calc.decoded.ok

(***************************************************************************)
(* C20.  For every value x of a supported type, to_bytes(x) ends without   *)
(* either writer assertion failing and has exactly required_size(x) bytes. *)
(***************************************************************************)
C20_SizeIsRequiredSize ==
  (calc.op = "codec" /\ calc.stage # "input") =>
    /\ calc.encoded.ok
    /\ Len(calc.encoded.bytes) = Bytes_required_size(calc.type, calc.value)

\* a sequence of two openings was written: 8 + 2 * 18 bytes
C20_Witness ==
  /\ calc.op = "codec" /\ calc.stage = "encoded"
  /\ calc.type = T_vec(T_Opening)
  /\ Len(calc.value) = 2
  /\ calc.encoded.ok
  /\ Len(calc.encoded.bytes) = 44

(***************************************************************************)
(* What the verifier received in its last POST, read off the bytes.        *)
(***************************************************************************)
opening_received(l) == l.step = "post" /\ l.status = 200
opening_well_formed(l) == opening_received(l) /\ Len(l.body) = 18
opened_color(l, i) == l.body[i]
opened_key(l, i) == from_le_bytes(SubSeq(l.body, 8 * i - 5, 8 * i + 2))
commitment_matches(l, i) ==
  /\ l.edge[i] \in Nodes
  /\ l.nodes[l.edge[i]]
       = Sha256(to_le_bytes(bitxor(opened_color(l, i), opened_key(l, i))))

(***************************************************************************)
(* C12.  Scenario S1: while the prover holds the reference solution, no    *)
(* round of the verifier program run against it fails: each round is       *)
(* accepted or completes the pass with Success.                            *)
(***************************************************************************)
C12_PassSucceeds ==
  [][(VerifierRound /\ progress.grid = SOLUTION.grid)
       => verifier'.outcome \in {"none", "Success"}]_vars

(***************************************************************************)
(* C13.  A round of the verifier is accepted only after its commitments    *)
(* were decoded and its opening was well formed, with two different        *)
(* colours and both endpoint commitments equal to SHA256(LE8(colour XOR    *)
(* key)); Success is reported only by the tenth accepted round; an opening *)
(* of another length gives InvalidVerificationData, equal colours give     *)
(* AdjacentIdenticalNodes whatever the hashes are, and a hash difference   *)
(* at either endpoint gives HashMismatch.                                  *)
(***************************************************************************)
C13_Step ==
  LET l == verifier'.last
      succeeded == verifier'.outcome = "Success"
                     /\ verifier'.passes = verifier.passes + 1
      accepted == verifier'.round = verifier.round + 1 \/ succeeded
      posted == verifier.pc = "WaitOpenings" /\ opening_received(l)
  IN  /\ accepted =>
           /\ verifier.pc = "WaitOpenings"
           /\ verifier.last.step = "get" /\ verifier.last.status = 200
           /\ Len(verifier.last.body) >= 32 * 90
           /\ (Len(verifier.last.body) - 32 * 90) % 16 = 0
           /\ opening_well_formed(l)
           /\ opened_color(l, 1) # opened_color(l, 2)
           /\ commitment_matches(l, 1)
           /\ commitment_matches(l, 2)
      /\ succeeded => verifier.round = 9
      /\ (posted /\ Len(l.body) # 18)
           => verifier'.outcome = "InvalidVerificationData"
      /\ (posted /\ Len(l.body) = 18 /\ opened_color(l, 1) = opened_color(l, 2))
           => verifier'.outcome = "AdjacentIdenticalNodes"
      /\ ( /\ posted /\ Len(l.body) = 18
           /\ opened_color(l, 1) # opened_color(l, 2)
           /\ l.edge[1] \in Nodes
           /\ \/ ~commitment_matches(l, 1)
              \/ l.edge[2] \in Nodes /\ ~commitment_matches(l, 2) )
           => verifier'.outcome = "HashMismatch"

C13_SuccessOnlyIfChecked == [][C13_Step]_vars

\* a pass of ten accepted rounds has ended with Success
C13_Witness ==
  /\ verifier.outcome = "Success"
  /\ verifier.passes = 1
  /\ opening_well_formed(verifier.last)

(***************************************************************************)
(* C14.  An opening of an edge between two cells with a colour 0 (an      *)
(* empty cell) fails the pass with outcome Unsolved, also when its colours *)
(* differ and both hashes match.                                           *)
(***************************************************************************)
C14_ZeroColourIsUnsolved ==
  LET l == verifier.last
  IN  ( /\ opening_well_formed(l)
        /\ l.edge[1] \in 0..80 /\ l.edge[2] \in 0..80
        /\ opened_color(l, 1) = 0 \/ opened_color(l, 2) = 0
        /\ opened_color(l, 1) # opened_color(l, 2)
        /\ commitment_matches(l, 1)
        /\ commitment_matches(l, 2) )
      => verifier.outcome = "Unsolved"

(***************************************************************************)
(* C15.  Scenario S4: an opening that carries the two committed colours,   *)
(* which differ, and at one endpoint or both a key other than the          *)
(* committed one ends the pass with HashMismatch.                          *)
(***************************************************************************)
C15_Tampered ==
  LET l == verifier.last
      c == verifier.commit
      a == l.edge[1]
      b == l.edge[2]
  IN  /\ opening_well_formed(l)
      /\ c.set
      /\ a \in Nodes /\ b \in Nodes
      /\ l.nodes[a] = Sha256(to_le_bytes(bitxor(c.colors[a], c.keys[a])))
      /\ l.nodes[b] = Sha256(to_le_bytes(bitxor(c.colors[b], c.keys[b])))
      /\ opened_color(l, 1) = c.colors[a]
      /\ opened_color(l, 2) = c.colors[b]
      /\ c.colors[a] # c.colors[b]
      /\ opened_key(l, 1) # c.keys[a] \/ opened_key(l, 2) # c.keys[b]

C15_TamperedKeyIsHashMismatch ==
  C15_Tampered =>
    /\ verifier.outcome = "HashMismatch"
    /\ verifier.pc = "Connect"
    /\ verifier.round = 0

\* the key of the second endpoint was changed, the first one was not
C15_Witness ==
  /\ C15_Tampered
  /\ opened_key(verifier.last, 1) = verifier.commit.keys[verifier.last.edge[1]]
  /\ verifier.outcome = "HashMismatch"

(***************************************************************************)
(* C21: when from_bytes accepts B, from_bytes of B with one byte appended   *)
(* fails with TrailingData(len(B)), and from_bytes of any proper prefix of *)
(* B fails with EndOfData.                                                 *)
(***************************************************************************)
C21_DamagedEncodingFails ==
  (calc.op = "codec" /\ calc.stage = "damaged") =>
     /\ calc.damage[1] = "append" =>
           calc.redecoded =
             [ok |-> FALSE, err |-> <<"TrailingData", Len(calc.encoded.bytes)>>]
     /\ calc.damage[1] = "prefix" =>
           ~calc.redecoded.ok /\ calc.redecoded.err[1] = "EndOfData"

\* a Vec<Edge> of two edges decoded, then decoded again with a byte appended
C21_Witness ==
  /\ calc.op = "codec" /\ calc.stage = "damaged"
  /\ calc.type = T_vec(T_Edge)
  /\ Len(calc.value) = 2
  /\ calc.damage[1] = "append"
  /\ calc.redecoded = [ok |-> FALSE, err |-> <<"TrailingData", 40>>]

\* the same encoding cut inside its second edge
C21_WitnessPrefix ==
  /\ calc.op = "codec" /\ calc.stage = "damaged"
  /\ calc.type = T_vec(T_Edge)
  /\ calc.damage = <<"prefix", 30>>
  /\ calc.redecoded = [ok |-> FALSE, err |-> <<"EndOfData", 24>>]

(***************************************************************************)
(* C22: the body of a commitments response for N sub-rounds is the 8-byte  *)
(* little-endian N followed by N elements of exactly 90 * 32 = 2880 bytes, *)
(* 8 + 2880 * N bytes in all, with no edge data and no inner length.       *)
(***************************************************************************)
C22_CommitmentsBodyIsDigestsOnly ==
  response.kind = "commitments" =>
     LET N == Len(response.body)
         bytes == encrypted_nodes_to_bytes(response.body)
     IN  /\ SubSeq(bytes, 1, 8) = u64_write(N)
         /\ Len(bytes) = 8 + NODE_SIZE * NUM_GRAPH_NODES * N

\* what the body is: every element carries its edges behind the digests
C22_ElementCarriesEdges ==
  response.kind = "commitments" =>
     LET N == Len(response.body)
         E == Len(response.body[1].edges)
         bytes == encrypted_nodes_to_bytes(response.body)
     IN  /\ SubSeq(bytes, 1, 8) = u64_write(N)
         /\ Len(bytes) = 8 + N * (NODE_SIZE * NUM_GRAPH_NODES + 8 + EDGE_SIZE * E)
         /\ SubSeq(bytes, 8 + NODE_SIZE * NUM_GRAPH_NODES + 1,
                    8 + NODE_SIZE * NUM_GRAPH_NODES + 8) = u64_write(E)

C24_Step ==
  (KeyLeft \/ KeyRight \/ KeyUp \/ KeyDown \/ KeyDigit \/ KeySpace) =>
     /\ progress'.given = progress.given
     /\ \A k \in 1..Len(progress.given) :
          LET x == progress.given[k][1]
              y == progress.given[k][2]
          IN  progress'.grid[y][x] = progress.grid[y][x]

C24_GivenCellsKeepTheirValue == [][C24_Step]_vars

\* after a move and a digit: the digit is in the empty cell next to the
\* first hint, and the hints are those of the puzzle with their values
C24_Witness ==
  /\ position = <<1, 0>>
  /\ progress.grid[0][1] = 5
  /\ progress.given = PUZZLE.given
  /\ \A k \in 1..Len(PUZZLE.given) :
        progress.grid[PUZZLE.given[k][2]][PUZZLE.given[k][1]]
          = PUZZLE.grid[PUZZLE.given[k][2]][PUZZLE.given[k][1]]

(***************************************************************************)
(* C25: the colours opened are the colours committed, also when a          *)
(* keystroke changes the Sudoku between the commitments request and the    *)
(* challenge: each opened (colour, key) hashes to the commitment sent for  *)
(* that node.  Stated for the first sub-round, whose opening goes through  *)
(* the mapper of that sub-round alone.                                     *)
(***************************************************************************)
C25_OpenedColoursAreCommitted ==
  (is_challenge(request) /\ response.kind = "openings" /\ committed # <<>>) =>
     LET e == challenge.value[1]
         o == response.body[1]
     IN  /\ hash_check(committed[1].digests[e[1]], o[1], o[3][1])
         /\ hash_check(committed[1].digests[e[2]], o[2], o[3][2])

\* what the code does: the opening is taken from the Sudoku as it is when
\* the challenge arrives
C25_OpenedColoursAreCurrent ==
  (is_challenge(request) /\ response.kind = "openings" /\ committed # <<>>) =>
     LET e == challenge.value[1]
         o == response.body[1]
         now == graph_map(request_graph, committed[1].mapper).nodes
     IN  /\ hash_check(hash(now[e[1]], committed[1].keys[e[1]]), o[1], o[3][1])
         /\ hash_check(hash(now[e[2]], committed[1].keys[e[2]]), o[2], o[3][2])

(***************************************************************************)
(* C26: whatever keys are pressed and whatever requests arrive (any        *)
(* method, path and body, challenge edges with any node indices), the      *)
(* worker answers the request it took with a response and is still running *)
(* to take the next one: building the graph and indexing nodes and keys    *)
(* never end it.                                                           *)
(***************************************************************************)
C26_WorkerAnswersAndLives ==
  /\ worker = "running"
  /\ request # NoRequest => response # NoResponse

\* the same for challenges that decode: only the indices are left to fail
C26_IndexingNeverAborts ==
  (is_challenge(request) /\ ~debug_assertions /\ challenge.ok) =>
     (worker = "running" /\ response # NoResponse)

\* the same for requests that carry no payload: only the graph is built
C26_GraphConstructionNeverAborts ==
  (request # NoRequest /\ ~is_challenge(request)) =>
     (worker = "running" /\ response # NoResponse)

(***************************************************************************)
(* C27: under every interleaving of the editor and the worker, what the    *)
(* worker has read when the graph is built is a Sudoku that was there      *)
(* between two keys, the one the last completed key left: never the new    *)
(* given of a key with the old grid, nor a grid that changed between the   *)
(* two loops.                                                              *)
(***************************************************************************)
C27_GraphOfACompletedKey ==
  rwlock.reader \in {"built", "done"} =>
     \/ /\ rwlock.reader = "built"
        /\ rwlock.seen = rwlock.stable
        /\ rwlock.seen_again = rwlock.stable.grid
        /\ rwlock.seen = progress
     \/ /\ rwlock.reader = "done"
        /\ rwlock.seen_again = rwlock.seen.grid

\* the graph is built from the fake solution while the next key waits for
\* the lock
C27_Witness ==
  /\ rwlock.reader = "built"
  /\ rwlock.seen = FAKE_SOLUTION
  /\ steps = 1

\* a half-applied 'g': the givens of the fake solution over the old grid
C27_HalfAppliedKey ==
  /\ rwlock.writer = "g"
  /\ rwlock.todo = <<"grid">>
  /\ progress.given = FAKE_SOLUTION.given
  /\ progress.grid = PUZZLE.grid
  /\ rwlock.reader = "done"

(***************************************************************************)
(* C28: whatever the grid holds, the first 810 edges of the graph built    *)
(* for a request are exactly the pairs (a, b), a < b, of distinct cell     *)
(* nodes that share a row, a column or a 3-by-3 box, each pair once, and   *)
(* no edge after them joins two cell nodes.                                *)
(***************************************************************************)
shares_unit(a, b) ==
  \/ a \div 9 = b \div 9
  \/ a % 9 = b % 9
  \/ (a \div 9) \div 3 = (b \div 9) \div 3 /\ (a % 9) \div 3 = (b % 9) \div 3

constrained_pairs ==
  {<<a, b>> \in (0..80) \X (0..80) : a < b /\ shares_unit(a, b)}

C28_CellEdgesAreTheConstraints ==
  request.method # "" =>
    LET edges == request_graph.edges
        first == {edges[k] : k \in 1..CELL_EDGES}
    IN  /\ Len(edges) >= CELL_EDGES
        /\ first = constrained_pairs
        /\ Cardinality(first) = CELL_EDGES
        /\ \A k \in (CELL_EDGES + 1)..Len(edges) :
              ~(edges[k][1] \in 0..80 /\ edges[k][2] \in 0..80)

\* a request served from the fake solution, every cell of it a given
C28_Witness ==
  /\ request.method # ""
  /\ response.status = 200
  /\ request.sudoku = FAKE_SOLUTION
  /\ Len(request_graph.edges) = CELL_EDGES + 8 * 81

(***************************************************************************)
(* C29: the hand-written byte form of an encrypted graph round-trips:      *)
(* Graph::from_bytes(g.to_bytes()) is Ok with the same 90 digests and the  *)
(* same edges in the same order, two distinct edges included, and all the  *)
(* input is consumed; an input shorter than 2880 bytes, or one whose       *)
(* remainder is not a multiple of 16, returns InvalidBytes.                *)
(***************************************************************************)
C29_GraphRoundTrip ==
  (calc.op = "graph" /\ calc.stage = "decoded") =>
     IF calc.cut = Len(calc.bytes)
     THEN /\ calc.decoded.ok
          /\ calc.decoded.value.nodes = calc.graph.nodes
          /\ calc.decoded.value.edges = calc.graph.edges
     ELSE (calc.cut < NODE_SIZE * NUM_GRAPH_NODES
             \/ (calc.cut - NODE_SIZE * NUM_GRAPH_NODES) % EDGE_SIZE # 0)
            => calc.decoded = [ok |-> FALSE, panic |-> FALSE, err |-> "InvalidBytes"]

\* what the code does: the digests come back; in a release build every
\* decoded edge is the first one, in a debug build any edge ends the decoder
C29_EveryEdgeIsTheFirst ==
  (calc.op = "graph" /\ calc.stage = "decoded" /\ calc.cut = Len(calc.bytes)) =>
     IF debug_assertions /\ calc.graph.edges # <<>>
     THEN calc.decoded.panic
     ELSE /\ calc.decoded.ok
          /\ calc.decoded.value.nodes = calc.graph.nodes
          /\ Len(calc.decoded.value.edges) = Len(calc.graph.edges)
          /\ \A k \in 1..Len(calc.graph.edges) :
                calc.decoded.value.edges[k] = calc.graph.edges[1]

\* the part of the claim on malformed inputs
C29_MalformedIsInvalidBytes ==
  (calc.op = "graph" /\ calc.stage = "decoded"
     /\ (calc.cut < NODE_SIZE * NUM_GRAPH_NODES
           \/ (calc.cut - NODE_SIZE * NUM_GRAPH_NODES) % EDGE_SIZE # 0)) =>
     calc.decoded = [ok |-> FALSE, panic |-> FALSE, err |-> "InvalidBytes"]

(***************************************************************************)
(* C30: when the 8-byte length of a sequence (any value up to 2^64 - 1)    *)
(* announces more elements than the bytes behind it hold, from_bytes       *)
(* returns Err(EndOfData(pos)); it neither panics nor runs out of memory   *)
(* reserving room for the announced length.  Stated here for an allocator  *)
(* that grants every reservation it is asked for.                          *)
(***************************************************************************)
C30_HostileLengthIsEndOfData ==
  (calc.op = "hostile" /\ calc.done /\ calc.alloc) =>
     /\ ~calc.result.ok
     /\ calc.result.err[1] = "EndOfData"
     /\ calc.result.err[2] \in 8..Len(calc.bytes)

\* what the code does: the room is reserved before the first element is
\* read, so the outcome is decided by the announced length alone unless
\* the reservation goes through
C30_ReservationComesFirst ==
  (calc.op = "hostile" /\ calc.done) =>
     LET len == SubSeq(calc.bytes, 1, 8)
         size == mem_size(calc.type.t)
     IN  /\ ~calc.result.ok
         /\ calc.result.err[1] =
              IF capacity_overflow(len, size) THEN "capacity overflow"
              ELSE IF from_le_bytes(len) = U64_LARGE /\ ~calc.alloc THEN "alloc error"
              ELSE "EndOfData"

====
